---- MODULE Spec2Model ----
(***************************************************************************)
(* Guini (gui4ini v0.7): a form built from an INI file, the assembly of    *)
(* the argument vector from the form, and the tab -> QProcess table.       *)
(*                                                                         *)
(* Text is modelled as a sequence of one-character strings, so that        *)
(* str.startswith, str.isdigit, int(), float(), str.lower and the regular  *)
(* expressions of the source are computed on characters.                   *)
(***************************************************************************)
EXTENDS Integers, Sequences, FiniteSets, TLC

----------------------------------------------------------------------------
(* Characters and Python's str / int / float primitives                    *)

\* Python's None: a value no text equals
None == <<"None">>

DigitChars == <<"0", "1", "2", "3", "4", "5", "6", "7", "8", "9">>

UpperChars == <<"A", "B", "C", "D", "E", "F", "G", "H", "I", "J", "K", "L", "M",
                "N", "O", "P", "Q", "R", "S", "T", "U", "V", "W", "X", "Y", "Z">>

LowerChars == <<"a", "b", "c", "d", "e", "f", "g", "h", "i", "j", "k", "l", "m",
                "n", "o", "p", "q", "r", "s", "t", "u", "v", "w", "x", "y", "z">>

Range(f) == {f[i] : i \in DOMAIN f}

IsDigit(c) == c \in Range(DigitChars)

DigitVal(c) == (CHOOSE i \in DOMAIN DigitChars : DigitChars[i] = c) - 1

\* str.lower() on one character
LowerChar(c) ==
    IF c \in Range(UpperChars)
    THEN LowerChars[CHOOSE i \in DOMAIN UpperChars : UpperChars[i] = c]
    ELSE c

\* str.lower()
Lower(s) == [i \in DOMAIN s |-> LowerChar(s[i])]

\* the regular expression class \w
IsWordChar(c) ==
    c \in Range(UpperChars) \cup Range(LowerChars) \cup Range(DigitChars) \cup {"_"}

\* the regular expression class \s, and the characters str.strip() removes
IsSpace(c) == c \in {" ", "\t", "\n"}

RECURSIVE LStrip(_)
LStrip(s) == IF s # <<>> /\ IsSpace(s[1]) THEN LStrip(Tail(s)) ELSE s

RECURSIVE RStrip(_)
RStrip(s) ==
    IF s # <<>> /\ IsSpace(s[Len(s)]) THEN RStrip(SubSeq(s, 1, Len(s) - 1)) ELSE s

Strip(s) == RStrip(LStrip(s))

\* str.startswith
StartsWith(s, p) == Len(s) >= Len(p) /\ SubSeq(s, 1, Len(p)) = p

\* s[n:]
From(s, n) == SubSeq(s, n + 1, Len(s))

\* str.isdigit(): at least one character, all of them digits
IsDigitStr(s) == s # <<>> /\ \A i \in DOMAIN s : IsDigit(s[i])

\* digits, with single underscores allowed between digits (int() and float())
IsDigitGroup(u) ==
    /\ u # <<>>
    /\ IsDigit(u[1])
    /\ IsDigit(u[Len(u)])
    /\ \A i \in DOMAIN u : IsDigit(u[i]) \/ u[i] = "_"
    /\ \A i \in 1..(Len(u) - 1) : ~(u[i] = "_" /\ u[i + 1] = "_")

Unsigned(t) == IF t # <<>> /\ t[1] \in {"+", "-"} THEN Tail(t) ELSE t

\* int(s) does not raise ValueError
IntParses(s) == IsDigitGroup(Unsigned(Strip(s)))

RECURSIVE DigitsValue(_, _)
DigitsValue(u, acc) ==
    IF u = <<>> THEN acc
    ELSE IF u[1] = "_" THEN DigitsValue(Tail(u), acc)
    ELSE DigitsValue(Tail(u), acc * 10 + DigitVal(u[1]))

\* int(s), for a text int() accepts
PyInt(s) ==
    LET t == Strip(s)
        v == DigitsValue(Unsigned(t), 0)
    IN  IF t # <<>> /\ t[1] = "-" THEN 0 - v ELSE v

IsMantissa(m) ==
    \/ IsDigitGroup(m)
    \/ \E k \in DOMAIN m :
          /\ m[k] = "."
          /\ LET a == SubSeq(m, 1, k - 1)
                 b == SubSeq(m, k + 1, Len(m))
             IN  /\ a = <<>> \/ IsDigitGroup(a)
                 /\ b = <<>> \/ IsDigitGroup(b)
                 /\ a # <<>> \/ b # <<>>

IsExponent(e) == IsDigitGroup(Unsigned(e))

IsDecimalFloat(u) ==
    \/ IsMantissa(u)
    \/ \E k \in DOMAIN u :
          /\ LowerChar(u[k]) = "e"
          /\ IsMantissa(SubSeq(u, 1, k - 1))
          /\ IsExponent(SubSeq(u, k + 1, Len(u)))

\* float(s) does not raise ValueError
FloatParses(s) ==
    LET u == Unsigned(Strip(s))
    IN  \/ Lower(u) \in {<<"i", "n", "f">>, <<"n", "a", "n">>,
                         <<"i", "n", "f", "i", "n", "i", "t", "y">>}
        \/ IsDecimalFloat(u)

----------------------------------------------------------------------------
(* Words of the source                                                     *)

S_true == <<"t", "r", "u", "e">>
S_false == <<"f", "a", "l", "s", "e">>
S_arg == <<"a", "r", "g">>
S_integer == <<"i", "n", "t", "e", "g", "e", "r">>
S_float == <<"f", "l", "o", "a", "t">>
S_boolean == <<"b", "o", "o", "l", "e", "a", "n">>
S_filename == <<"f", "i", "l", "e", "n", "a", "m", "e">>
S_string == <<"s", "t", "r", "i", "n", "g">>
S_list == <<"l", "i", "s", "t", "[">>
S_script_file_name == <<"s", "c", "r", "i", "p", "t", "_", "f", "i", "l", "e", "_",
                        "n", "a", "m", "e">>

----------------------------------------------------------------------------
(* Type inference                                                          *)

\* scripts/argument_analyzer.py: guess_type
guess_type(value) ==
    IF Lower(value) \in {S_true, S_false} THEN S_boolean
    ELSE IF IntParses(value) THEN S_integer
    ELSE IF FloatParses(value) THEN S_float
    ELSE S_string

\* the guess with a case-sensitive test for "true" and "false"
InferTypeCaseSensitive(value) ==
    IF value \in {S_true, S_false} THEN S_boolean
    ELSE IF IntParses(value) THEN S_integer
    ELSE IF FloatParses(value) THEN S_float
    ELSE S_string

\* MainWindow._create_editor_for_value, lines 1362-1374: the type guessed from
\* the value when no hint is given
InferType(value) ==
    IF Lower(value) \in {S_true, S_false} THEN S_boolean
    ELSE IF IntParses(value) THEN S_integer
    ELSE IF FloatParses(value) THEN S_float
    ELSE S_string

\* the final type when a boolean-looking value overrules the hint
FinalTypeValueFirst(key, value, type_hint) ==
    IF key = S_script_file_name THEN S_filename
    ELSE IF Lower(value) \in {S_true, S_false} THEN S_boolean
    ELSE IF type_hint = None \/ type_hint = <<>> THEN InferType(value)
    ELSE type_hint

\* the final_type of _create_editor_for_value before the widget is chosen;
\* "not final_type" holds for None and for the empty text
FinalType(key, value, type_hint) ==
    IF key = S_script_file_name THEN S_filename
    ELSE IF type_hint = None \/ type_hint = <<>> THEN InferType(value)
    ELSE type_hint

\* MainWindow._create_editor_for_value: the widget built and the type returned
create_editor_for_value(key, value, type_hint) ==
    LET final_type == FinalType(key, value, type_hint)
    IN  IF StartsWith(final_type, S_list)
        THEN [widget |-> "QLineEdit", text |-> value, checked |-> FALSE,
              type |-> final_type]
        ELSE IF final_type = S_boolean
        THEN [widget |-> "QCheckBox", text |-> <<>>,
              checked |-> (Lower(value) = S_true), type |-> S_boolean]
        ELSE IF final_type = S_integer
        THEN [widget |-> "QLineEdit", text |-> value, checked |-> FALSE,
              type |-> S_integer]
        ELSE IF final_type = S_float
        THEN [widget |-> "QLineEdit", text |-> value, checked |-> FALSE,
              type |-> S_float]
        ELSE IF final_type = S_filename
        THEN [widget |-> "FileNameWidget", text |-> value, checked |-> FALSE,
              type |-> S_filename]
        ELSE [widget |-> "QLineEdit", text |-> value, checked |-> FALSE,
              type |-> S_string]

----------------------------------------------------------------------------
(* Label and ArgParse definition parsing                                   *)

EndsWith(s, p) == Len(s) >= Len(p) /\ SubSeq(s, Len(s) - Len(p) + 1, Len(s)) = p

Paren(t) == <<"(">> \o t \o <<")">>

LabelHints == <<S_integer, S_float, S_boolean, S_filename>>

\* a label parser that takes the type pattern of the ArgParse definitions
parse_label_with_lists(label_text) ==
    LET t == RStrip(label_text)
        ps == {p \in DOMAIN t :
                  /\ t[p] = "(" /\ t[Len(t)] = ")"
                  /\ Lower(SubSeq(t, p + 1, p + Len(S_list))) = S_list
                  /\ t[Len(t) - 1] = "]"}
    IN  IF ps = {} THEN [label |-> label_text, type_hint |-> None]
        ELSE LET p == CHOOSE q \in ps : \A r \in ps : q <= r
             IN  [label |-> Strip(SubSeq(t, 1, p - 1)),
                  type_hint |-> Lower(SubSeq(t, p + 1, Len(t) - 1))]

\* MainWindow._parse_label: the pattern \s*\((integer|float|boolean|filename)\)\s*$
\* searched ignoring case; the hint is lowercased, the label is what precedes
\* the match, stripped
parse_label(label_text) ==
    LET t == RStrip(label_text)
        hits == {i \in DOMAIN LabelHints : EndsWith(Lower(t), Paren(LabelHints[i]))}
    IN  IF hits = {}
        THEN [label |-> label_text, type_hint |-> None]
        ELSE LET h == LabelHints[CHOOSE i \in hits : TRUE]
             IN  [label |-> Strip(SubSeq(t, 1, Len(t) - Len(h) - 2)),
                  type_hint |-> h]

IsFlagChar(c) == IsWordChar(c) \/ c = "-"

\* the longest prefix of s made of characters of [\w-]
RECURSIVE FlagRun(_)
FlagRun(s) ==
    IF s # <<>> /\ IsFlagChar(s[1]) THEN <<s[1]>> \o FlagRun(Tail(s)) ELSE <<>>

\* re.match(r"^\s*(?P<flag>--?[\w-]+)", text): after leading white space a "-",
\* then the greedy run of [\w-], at least one character long (the optional second
\* "-" belongs to the same class)
ParseFlag(text) ==
    LET t == LStrip(text)
    IN  IF t # <<>> /\ t[1] = "-" /\ FlagRun(Tail(t)) # <<>>
        THEN <<"-">> \o FlagRun(Tail(t))
        ELSE None

\* the longest prefix of s made of characters of \w
RECURSIVE WordRun(_)
WordRun(s) ==
    IF s # <<>> /\ IsWordChar(s[1]) THEN <<s[1]>> \o WordRun(Tail(s)) ELSE <<>>

\* \((list\[\w+\]|integer|float|boolean|filename)\) matched at position p of
\* text, ignoring case: group(1), or None
TypeMatchAt(text, p) ==
    LET rest == From(text, p)
        low == Lower(rest)
        w == WordRun(From(rest, Len(S_list)))
    IN  IF text[p] # "(" THEN None
        ELSE IF /\ StartsWith(low, S_list)
                /\ w # <<>>
                /\ StartsWith(From(rest, Len(S_list) + Len(w)), <<"]", ")">>)
        THEN SubSeq(rest, 1, Len(S_list) + Len(w) + 1)
        ELSE LET hits == {i \in DOMAIN LabelHints :
                             StartsWith(low, LabelHints[i] \o <<")">>)}
             IN  IF hits = {} THEN None
                 ELSE SubSeq(rest, 1, Len(LabelHints[CHOOSE i \in hits : TRUE]))

\* MainWindow._parse_argparse_definition: the flag, and the lowercased first
\* match of the type pattern
parse_argparse_definition(text) ==
    LET ps == {p \in DOMAIN text : TypeMatchAt(text, p) # None}
    IN  [flag |-> ParseFlag(text),
         type_hint |-> IF ps = {} THEN None
                       ELSE Lower(Strip(TypeMatchAt(text,
                                CHOOSE p \in ps : \A q \in ps : p <= q)))]

----------------------------------------------------------------------------
(* The loaded INI (ConfigUpdater) and the form built from it               *)

\* ConfigUpdater.has_section
has_section(cfg, name) == name \in cfg.sections

\* ConfigUpdater.items(section): the section's options in file order
items(cfg, name) == cfg[name]

\* ConfigUpdater.get(section, key, fallback=...): the option's value
get(cfg, name, key, fallback) ==
    LET hits == {i \in DOMAIN cfg[name] : cfg[name][i].key = key}
    IN  IF hits = {} THEN fallback ELSE cfg[name][CHOOSE i \in hits : TRUE].value

\* the type hint of a key's label: the [Labels] entry, or the key itself
LabelHint(cfg, key) ==
    parse_label(IF has_section(cfg, "Labels") THEN get(cfg, "Labels", key, key)
                ELSE key).type_hint

Editor(section, key, made) ==
    [section |-> section, key |-> key, widget |-> made.widget, text |-> made.text,
     checked |-> made.checked, type |-> made.type]

\* MainWindow._build_command_section_ui: one editor per [Command] option
build_command_section_ui(cfg) ==
    [i \in DOMAIN items(cfg, "Command") |->
        LET o == items(cfg, "Command")[i]
        IN  Editor("Command", o.key,
                   create_editor_for_value(o.key, o.value, LabelHint(cfg, o.key)))]

\* MainWindow._build_arguments_section_ui: with an [ArgParse] section one editor
\* per ArgParse entry (typed by its definition, initialised from [Arguments]);
\* otherwise one editor per [Arguments] option (typed by its label)
build_arguments_section_ui(cfg) ==
    IF has_section(cfg, "ArgParse")
    THEN [i \in DOMAIN items(cfg, "ArgParse") |->
            LET o == items(cfg, "ArgParse")[i]
            IN  Editor("Arguments", o.key,
                       create_editor_for_value(
                           o.key, get(cfg, "Arguments", o.key, <<>>),
                           parse_argparse_definition(o.value).type_hint))]
    ELSE [i \in DOMAIN items(cfg, "Arguments") |->
            LET o == items(cfg, "Arguments")[i]
            IN  Editor("Arguments", o.key,
                       create_editor_for_value(o.key, o.value, LabelHint(cfg, o.key)))]

\* MainWindow._load_and_build_ui, lines 1202-1216: self.editors after the build,
\* in insertion order ([Command] first, then [Arguments])
BuildEditors(cfg) ==
    (IF has_section(cfg, "Command") THEN build_command_section_ui(cfg) ELSE <<>>)
    \o (IF has_section(cfg, "Arguments") THEN build_arguments_section_ui(cfg)
        ELSE <<>>)

\* MainWindow._get_ui_values: (section, key, value) in the order of self.editors
get_ui_values(eds) ==
    [i \in DOMAIN eds |->
        [section |-> eds[i].section, key |-> eds[i].key,
         value |-> IF eds[i].widget = "QCheckBox"
                   THEN (IF eds[i].checked THEN S_true ELSE S_false)
                   ELSE eds[i].text]]

\* dict.get((section, key)) on the ui values: the value, or None
UiGet(ui, section, key) ==
    LET hits == {i \in DOMAIN ui : ui[i].section = section /\ ui[i].key = key}
    IN  IF hits = {} THEN None ELSE ui[CHOOSE i \in hits : TRUE].value

\* self.editors.get((section, key)): the editor's widget class, or None
EditorWidget(eds, section, key) ==
    LET hits == {i \in DOMAIN eds : eds[i].section = section /\ eds[i].key = key}
    IN  IF hits = {} THEN "None" ELSE eds[CHOOSE i \in hits : TRUE].widget

----------------------------------------------------------------------------
(* Argument assembly: MainWindow._get_script_and_args                      *)

\* the scripts that exist in the application's directory (pathlib.Path.exists)
ExistingScripts == {<<"s">>}

\* lines 797-801: the [Arguments] keys of the form arg<digits>, in dict order
RECURSIVE argument_keys(_)
argument_keys(ui) ==
    IF ui = <<>> THEN <<>>
    ELSE LET k == ui[1].key
         IN  (IF /\ ui[1].section = "Arguments"
                 /\ StartsWith(k, S_arg)
                 /\ IsDigitStr(From(k, 3))
              THEN <<k>> ELSE <<>>) \o argument_keys(Tail(ui))

\* text order of two digit strings, as sorted() without a key would compare them
RECURSIVE LexLeq(_, _)
LexLeq(a, b) ==
    IF a = <<>> THEN TRUE
    ELSE IF b = <<>> THEN FALSE
    ELSE IF a[1] # b[1] THEN DigitVal(a[1]) < DigitVal(b[1])
    ELSE LexLeq(Tail(a), Tail(b))

KeyLeqText(a, b) == LexLeq(From(a, 3), From(b, 3))

\* line 802: the order of key=lambda k: int(k[3:])
KeyLeq(a, b) == PyInt(From(a, 3)) <= PyInt(From(b, 3))

\* x put behind the last element of the sorted list that is not greater
RECURSIVE InsertSorted(_, _)
InsertSorted(x, sorted) ==
    IF sorted = <<>> THEN <<x>>
    ELSE IF KeyLeq(sorted[Len(sorted)], x) THEN Append(sorted, x)
    ELSE Append(InsertSorted(x, SubSeq(sorted, 1, Len(sorted) - 1)),
                sorted[Len(sorted)])

\* line 802: sorted(), which is stable
RECURSIVE sorted_arg_keys(_)
sorted_arg_keys(keys) ==
    IF keys = <<>> THEN <<>>
    ELSE InsertSorted(keys[Len(keys)],
                      sorted_arg_keys(SubSeq(keys, 1, Len(keys) - 1)))

\* lines 805-809: the 0-based index of the last non-empty argument, or -1
last_non_empty_index(args) ==
    LET filled == {i \in DOMAIN args : args[i] # <<>>}
    IN  IF filled = {} THEN 0 - 1
        ELSE (CHOOSE i \in filled : \A j \in filled : j <= i) - 1

\* the gap check begun at the second argument: for i in range(1, last)
gap_arg_number_from_second(args) ==
    LET last == last_non_empty_index(args)
        holes == {i \in 1..(last - 1) : args[i + 1] = <<>>}
    IN  IF last > 0 /\ holes # {}
        THEN (CHOOSE i \in holes : \A j \in holes : i <= j) + 1
        ELSE 0

\* lines 811-820: the number cited by the gap warning, or 0 when there is no gap
gap_arg_number(args) ==
    LET last == last_non_empty_index(args)
        holes == {i \in 0..(last - 1) : args[i + 1] = <<>>}
    IN  IF last > 0 /\ holes # {}
        THEN (CHOOSE i \in holes : \A j \in holes : i <= j) + 1
        ELSE 0

\* one turn that treats every editor as a text field
ArgParseStepAsText(o, eds, ui) ==
    LET flag == parse_argparse_definition(o.value).flag
        ui_value == UiGet(ui, "Arguments", o.key)
    IN  IF flag = None THEN <<>>
        ELSE IF ui_value # None /\ ui_value # <<>> THEN <<flag, ui_value>>
        ELSE <<>>

\* one turn that appends the flag and the text of a text field even when empty
ArgParseStepAlways(o, eds, ui) ==
    LET flag == parse_argparse_definition(o.value).flag
        ui_value == UiGet(ui, "Arguments", o.key)
    IN  IF flag = None THEN <<>>
        ELSE IF EditorWidget(eds, "Arguments", o.key) = "QCheckBox"
        THEN (IF ui_value = S_true THEN <<flag>> ELSE <<>>)
        ELSE IF ui_value # None THEN <<flag, ui_value>>
        ELSE <<>>

\* lines 780-794, one turn of the loop over the [ArgParse] entries: what the
\* entry appends to args
ArgParseStep(o, eds, ui) ==
    LET flag == parse_argparse_definition(o.value).flag
        ui_value == UiGet(ui, "Arguments", o.key)
    IN  IF flag = None THEN <<>>
        ELSE IF EditorWidget(eds, "Arguments", o.key) = "QCheckBox"
        THEN (IF ui_value = S_true THEN <<flag>> ELSE <<>>)
        ELSE IF ui_value # None /\ ui_value # <<>> THEN <<flag, ui_value>>
        ELSE <<>>

\* the loop taking the entries last to first
RECURSIVE ArgParseLoopReversed(_, _, _, _)
ArgParseLoopReversed(entries, eds, ui, acc) ==
    IF entries = <<>> THEN acc
    ELSE LET n == Len(entries)
             o == entries[n]
             flag == parse_argparse_definition(o.value).flag
             ui_value == UiGet(ui, "Arguments", o.key)
             step == IF flag = None THEN <<>>
                     ELSE IF EditorWidget(eds, "Arguments", o.key) = "QCheckBox"
                     THEN (IF ui_value = S_true THEN <<flag>> ELSE <<>>)
                     ELSE IF ui_value # None /\ ui_value # <<>>
                     THEN <<flag, ui_value>>
                     ELSE <<>>
             args == acc.args \o step
         IN  ArgParseLoopReversed(SubSeq(entries, 1, n - 1), eds, ui,
                                  [args |-> args, marks |-> Append(acc.marks, Len(args))])

\* lines 777-794: the loop; marks[i] is len(args) when turn i begins and the
\* last mark is len(args) at the end
RECURSIVE ArgParseLoop(_, _, _, _)
ArgParseLoop(entries, eds, ui, acc) ==
    IF entries = <<>> THEN acc
    ELSE LET args == acc.args \o ArgParseStep(entries[1], eds, ui)
         IN  ArgParseLoop(Tail(entries), eds, ui,
                          [args |-> args, marks |-> Append(acc.marks, Len(args))])

\* the assembly without the test that the script file exists
get_script_and_args_unchecked(cfg, eds) ==
    LET ui == get_ui_values(eds)
        script_filename == UiGet(ui, "Command", S_script_file_name)
        none == [status |-> "", args |-> <<>>, marks |-> <<>>, arg_number |-> 0]
    IN  IF script_filename = None \/ script_filename = <<>>
        THEN [none EXCEPT !.status = "no_script_name"]
        ELSE IF has_section(cfg, "ArgParse")
        THEN LET r == ArgParseLoop(items(cfg, "ArgParse"), eds, ui,
                                   [args |-> <<>>, marks |-> <<0>>])
             IN  [status |-> "ok", args |-> r.args, marks |-> r.marks,
                  arg_number |-> 0]
        ELSE LET keys == sorted_arg_keys(argument_keys(ui))
                 args == [i \in DOMAIN keys |-> UiGet(ui, "Arguments", keys[i])]
                 n == gap_arg_number(args)
             IN  [status |-> IF n > 0 THEN "gap" ELSE "ok", args |-> args,
                  marks |-> <<>>, arg_number |-> n]

\* MainWindow._get_script_and_args: status "ok" stands for the returned
\* (script_path, args); every other status for (None, None) after its message
get_script_and_args(cfg, eds) ==
    LET ui == get_ui_values(eds)
        script_filename == UiGet(ui, "Command", S_script_file_name)
        none == [status |-> "", args |-> <<>>, marks |-> <<>>, arg_number |-> 0]
    IN  IF script_filename = None \/ script_filename = <<>>
        THEN [none EXCEPT !.status = "no_script_name"]
        ELSE IF script_filename \notin ExistingScripts
        THEN [none EXCEPT !.status = "script_not_found"]
        ELSE IF has_section(cfg, "ArgParse")
        THEN LET r == ArgParseLoop(items(cfg, "ArgParse"), eds, ui,
                                   [args |-> <<>>, marks |-> <<0>>])
             IN  [status |-> "ok", args |-> r.args, marks |-> r.marks,
                  arg_number |-> 0]
        ELSE LET keys == sorted_arg_keys(argument_keys(ui))
                 args == [i \in DOMAIN keys |-> UiGet(ui, "Arguments", keys[i])]
                 n == gap_arg_number(args)
             IN  [status |-> IF n > 0 THEN "gap" ELSE "ok", args |-> args,
                  marks |-> <<>>, arg_number |-> n]

----------------------------------------------------------------------------
(* The window: form, output tabs and the tab -> QProcess table             *)

VARIABLES
    config,             \* self.config: the loaded INI
    editors,            \* self.editors, in insertion order
    is_dirty,           \* self.is_dirty
    save_enabled,       \* save_button.isEnabled()
    window_title,       \* self.windowTitle()
    config_file,        \* self.config_file: the file's name, or None
    ini_files,          \* the INI files on disk, by name
    remember_window_size, \* self.remember_window_size
    window_size,        \* self.size()
    app_settings,       \* guini.ini as last written: the window size in it
    closed,             \* a QCloseEvent was accepted: the window is closed
    multi_tab_enabled,  \* self.multi_tab_enabled
    run_in_background,  \* self.run_in_background
    pythonw_exists,     \* pythonw.exe exists next to sys.executable
    tabs,               \* the widgets of self.tab_widget, in tab order
    current,            \* tab_widget.currentIndex() + 1; 0 without a tab
    tab_counter,        \* self.tab_counter
    tab_text,           \* tab_widget.tabText of each widget
    tab_process_map,    \* self.tab_process_map: widget -> QProcess
    procs,              \* the QProcess objects
    run_enabled,        \* run_button.isEnabled()
    stop_enabled,       \* stop_button.isEnabled()
    call                \* the latest run_script call and what it did

vars == <<config, editors, is_dirty, save_enabled, window_title, config_file,
          ini_files, remember_window_size, window_size, app_settings, closed,
          multi_tab_enabled, run_in_background, pythonw_exists,
          tabs, current, tab_counter, tab_text, tab_process_map, procs,
          run_enabled, stop_enabled, call>>

formVars == <<config, editors>>
dirtyVars == <<is_dirty, save_enabled, window_title, config_file>>
closeVars == <<remember_window_size, window_size, app_settings, closed>>
settingVars == <<multi_tab_enabled, run_in_background, pythonw_exists>>
tabVars == <<tabs, current, tab_counter, tab_text>>
buttonVars == <<run_enabled, stop_enabled>>
windowVars == <<formVars, dirtyVars, ini_files, closeVars, settingVars>>

\* most tabs ever created, and most QProcess objects alive at once
MaxTabs == 2
MaxProcs == 2

Widgets == 1..MaxTabs
ProcIds == 1..MaxProcs

NoProc == [state |-> "Unused", tab |-> 0, terminate |-> FALSE]
NoCall == [op |-> "none", status |-> "", args |-> <<>>, marks |-> <<>>,
           arg_number |-> 0, state |-> "", logged |-> <<>>,
           handler |-> "", prompt |-> ""]

\* QProcess.state() == QProcess.ProcessState.Running
IsRunning(p) == procs[p].state = "Running"

\* the QProcess objects nothing refers to any more: finished ones after
\* deleteLater(), and failed ones dropped from the table
Collect(ps, map) ==
    [p \in DOMAIN ps |->
        IF ps[p].state = "NotRunning" /\ \A w \in DOMAIN map : map[w] # p
        THEN NoProc ELSE ps[p]]

\* the exit codes a script ends with, and QProcess.exitStatus()
ExitCodes == {0, 1}
ExitStatuses == {"NormalExit", "CrashExit"}

\* str(n) of an f-string, for one-digit n
Str(n) == <<CHOOSE c \in Range(DigitChars) : DigitVal(c) = n>>

\* MainWindow.update_button_states: (Run enabled, Stop enabled)
update_button_states(tbs, cur, map, ps) ==
    IF cur = 0 THEN <<FALSE, FALSE>>
    ELSE LET w == tbs[cur]
             is_running == w \in DOMAIN map /\ ps[map[w]].state = "Running"
         IN  <<~is_running, is_running>>

\* dict without one key
Without(map, w) == [x \in DOMAIN map \ {w} |-> map[x]]

\* dict with map[w] = p
With(map, w, p) == [x \in DOMAIN map \cup {w} |-> IF x = w THEN p ELSE map[x]]

\* the tab titles: "Output n", or the script's name, behind "[Finished] "
OutputTitle(n) == [finished |-> FALSE, name |-> <<"Output", n>>]
ScriptTitle(name) == [finished |-> FALSE, name |-> <<"script", name>>]

\* a loaded INI: the names of its sections and the options of each, in file order
Ini(command, arguments, argparse, labels, names) ==
    [sections |-> names, Command |-> command, Arguments |-> arguments,
     ArgParse |-> argparse, Labels |-> labels]

\* ConfigUpdater() before any file is read
EmptyIni == Ini(<<>>, <<>>, <<>>, <<>>, {})

\* the window title of __init__, and the one _load_and_build_ui sets
AppTitle == <<"Guini">>
FileTitle(file) == AppTitle \o <<" - ">> \o file

\* INI file names
F_a == <<"a", ".", "i", "n", "i">>
F_b == <<"b", ".", "i", "n", "i">>

IniNames == {F_a, F_b}

\* how a load can end, and the buttons of "You have unsaved changes..."
Outcomes == {"ok", "unparsable", "missing"}
Replies == {"Save", "Discard", "Cancel"}

\* an INI file on disk as a load finds it: missing (pathlib.Path.exists is
\* false), rejected by the parser (configparser.Error), or holding cfg
FileOf(outcome, cfg) ==
    [outcome |-> outcome, cfg |-> IF outcome = "ok" THEN cfg ELSE EmptyIni]

\* the form, its dirty marker and the INI files, as the handlers below pass
\* them on
TheForm ==
    [config |-> config, editors |-> editors, is_dirty |-> is_dirty,
     save_enabled |-> save_enabled, window_title |-> window_title,
     config_file |-> config_file, ini_files |-> ini_files]

BecomesForm(st) ==
    /\ config' = st.config
    /\ editors' = st.editors
    /\ is_dirty' = st.is_dirty
    /\ save_enabled' = st.save_enabled
    /\ window_title' = st.window_title
    /\ config_file' = st.config_file
    /\ ini_files' = st.ini_files

\* MainWindow._set_dirty
set_dirty(st, dirty) ==
    IF st.is_dirty = dirty THEN st
    ELSE LET title == st.window_title
         IN  [st EXCEPT
                !.is_dirty = dirty,
                !.window_title =
                    IF dirty /\ ~EndsWith(title, <<"*">>) THEN title \o <<"*">>
                    ELSE IF ~dirty /\ "*" \in Range(title)
                    THEN SubSeq(title, 1, Len(title) - 1)
                    ELSE title,
                !.save_enabled = dirty]

\* a set that rewrites the section with the one option
SetOptionAlone(cfg, section, key, value) ==
    [cfg EXCEPT !.sections = cfg.sections \cup {section},
                ![section] = <<[key |-> key, value |-> value]>>]

\* ConfigUpdater.set(section, key, value), after add_section when the section
\* is missing: the option's value is replaced in place, a new option goes last
SetOption(cfg, section, key, value) ==
    LET had == [cfg EXCEPT !.sections = cfg.sections \cup {section}]
        opts == cfg[section]
    IN  IF \E i \in DOMAIN opts : opts[i].key = key
        THEN [had EXCEPT ![section] =
                 [i \in DOMAIN opts |->
                     IF opts[i].key = key THEN [key |-> key, value |-> value]
                     ELSE opts[i]]]
        ELSE [had EXCEPT ![section] = Append(opts, [key |-> key, value |-> value])]

\* the loop of save_config over the ui values
RECURSIVE SetAll(_, _)
SetAll(cfg, ui) ==
    IF ui = <<>> THEN cfg
    ELSE SetAll(SetOption(cfg, ui[1].section, ui[1].key, ui[1].value), Tail(ui))

\* MainWindow.save_config: the ui values are set in self.config, and
\* update_file() writes it to the file it was read from, when a file is loaded
save_config(st) ==
    LET cfg == SetAll(st.config, get_ui_values(st.editors))
    IN  set_dirty([st EXCEPT !.config = cfg,
                             !.ini_files =
                                 IF st.config_file # None
                                 THEN [@ EXCEPT ![st.config_file] = FileOf("ok", cfg)]
                                 ELSE @],
                  FALSE)

\* a load that does not reset the dirty marker at its end
load_and_build_ui_no_reset(st, file, outcome, cfg) ==
    LET opened == [st EXCEPT !.config_file = file,
                             !.window_title = FileTitle(file),
                             !.editors = <<>>, !.config = EmptyIni]
        built == [opened EXCEPT !.config = cfg, !.editors = BuildEditors(cfg)]
    IN  IF outcome = "missing" THEN st
        ELSE IF outcome = "unparsable" THEN opened
        ELSE IF \E i \in DOMAIN built.editors : built.editors[i].checked
        THEN set_dirty(built, TRUE) ELSE built

\* MainWindow._load_and_build_ui for a file that is missing, that the parser
\* rejects, or that holds cfg. A missing file returns at once. Otherwise the
\* file's name and the title are set and the form is cleared; a parser error
\* returns there (the ConfigUpdater it leaves behind is read by no one, as no
\* editor exists). A check box built checked emits stateChanged, whose slot is
\* _set_dirty(True); the load ends with _set_dirty(False).
load_and_build_ui(st, file, outcome, cfg) ==
    LET opened == [st EXCEPT !.config_file = file,
                             !.window_title = FileTitle(file),
                             !.editors = <<>>, !.config = EmptyIni]
        built == [opened EXCEPT !.config = cfg, !.editors = BuildEditors(cfg)]
    IN  IF outcome = "missing" THEN st
        ELSE IF outcome = "unparsable" THEN opened
        ELSE set_dirty(IF \E i \in DOMAIN built.editors : built.editors[i].checked
                       THEN set_dirty(built, TRUE) ELSE built, FALSE)

\* a prompt that saves whatever the reply is
prompt_that_always_saves(st, reply) ==
    IF ~st.is_dirty
    THEN [form |-> st, proceed |-> TRUE, saved |-> FALSE, prompt |-> ""]
    ELSE [form |-> save_config(st), proceed |-> reply # "Cancel", saved |-> TRUE,
          prompt |-> reply]

\* MainWindow._prompt_to_save_if_dirty: the form after the prompt, and whether
\* to go on; reply is the button of "You have unsaved changes..."
prompt_to_save_if_dirty(st, reply) ==
    IF ~st.is_dirty
    THEN [form |-> st, proceed |-> TRUE, saved |-> FALSE, prompt |-> ""]
    ELSE IF reply = "Save"
    THEN [form |-> save_config(st), proceed |-> TRUE, saved |-> TRUE,
          prompt |-> reply]
    ELSE [form |-> st, proceed |-> reply # "Cancel", saved |-> FALSE,
          prompt |-> reply]

\* window sizes: the one of resize(600, 500), and another
DefaultSize == "600x500"
WindowSizes == {DefaultSize, "800x600"}

\* MainWindow.__init__, lines 240-272: remember_window_size and the window size
\* from guini.ini, where saved is the size found there
InitSettings(remember, saved) ==
    /\ remember_window_size = remember
    /\ app_settings = [window_size |-> saved]
    /\ window_size = IF remember THEN saved ELSE DefaultSize
    /\ closed = FALSE

\* MainWindow.__init__, lines 230-282 and 416-417, for a window whose settings
\* and initial INI are given: the form is built, then the first tab is created
InitWindow(cfg, multi, background, pythonw) ==
    /\ config = cfg
    /\ editors = BuildEditors(cfg)
    /\ is_dirty = FALSE
    /\ save_enabled = FALSE
    /\ window_title = FileTitle(F_a)
    /\ config_file = F_a
    /\ ini_files = [f \in IniNames |-> FileOf("ok", cfg)]
    /\ InitSettings(TRUE, DefaultSize)
    /\ multi_tab_enabled = multi
    /\ run_in_background = background
    /\ pythonw_exists = pythonw
    /\ tabs = <<1>>
    /\ current = 1
    /\ tab_counter = 1
    /\ tab_text = [w \in {1} |-> OutputTitle(1)]
    /\ tab_process_map = << >>
    /\ procs = [p \in ProcIds |-> NoProc]
    /\ run_enabled = TRUE
    /\ stop_enabled = FALSE
    /\ call = NoCall

\* the user types text into a QLineEdit or FileNameWidget editor (textChanged,
\* whose slot is _set_dirty(True))
EditText(i, text) ==
    /\ ~closed
    /\ i \in DOMAIN editors
    /\ editors[i].widget # "QCheckBox"
    /\ editors[i].text # text
    /\ BecomesForm(set_dirty([TheForm EXCEPT !.editors[i].text = text], TRUE))
    /\ call' = NoCall
    /\ UNCHANGED <<closeVars, settingVars, tabVars, tab_process_map, procs, buttonVars>>

\* the user toggles a QCheckBox editor (stateChanged, whose slot is
\* _set_dirty(True))
ToggleCheck(i) ==
    /\ ~closed
    /\ i \in DOMAIN editors
    /\ editors[i].widget = "QCheckBox"
    /\ BecomesForm(set_dirty([TheForm EXCEPT !.editors[i].checked = ~editors[i].checked],
                              TRUE))
    /\ call' = NoCall
    /\ UNCHANGED <<closeVars, settingVars, tabVars, tab_process_map, procs, buttonVars>>

\* the lines _log_message appends to the current tab's output
L_separator == <<"=", "=", "=">>
L_starting == <<"--- Starting new run at: ", "now", " ---">>
L_no_pythonw == <<"Warning: pythonw.exe not found. Launching attached process with python.exe instead.">>
L_background == <<"Starting script in background with pythonw.exe. Output will not be captured.">>
L_command == <<"$ ", "command">>
L_finished_at == <<"--- Finished at ", "now", " (Elapsed: ", "elapsed", ") ---">>
L_crashed == <<"! Process was terminated or crashed.">>
L_exit_code(exit_code) ==
    <<"--- Process finished with exit code ">> \o Str(exit_code) \o <<" ---">>
L_blank == <<>>

\* MainWindow.run_script, lines 1502-1538: what a run appends to the output of
\* the current tab before the process is started
RunLog(status) ==
    IF status = "detached" THEN <<L_separator, L_starting, L_background, L_command>>
    ELSE IF status = "attached"
    THEN <<L_separator, L_starting>>
         \o (IF run_in_background THEN <<L_no_pythonw>> ELSE <<>>) \o <<L_command>>
    ELSE <<>>

\* a run that goes to the background whether pythonw.exe exists or not
RunScriptAlwaysDetached ==
    /\ ~closed
    /\ run_enabled
    /\ current # 0
    /\ LET w == tabs[current]
           r == get_script_and_args(config, editors)
           done(status) == [op |-> "run_script", status |-> status, args |-> r.args,
                            marks |-> r.marks, arg_number |-> r.arg_number,
                            state |-> "", logged |-> RunLog(status)]
       IN  IF w \in DOMAIN tab_process_map /\ IsRunning(tab_process_map[w])
           THEN /\ call' = [NoCall EXCEPT !.op = "run_script", !.status = "busy"]
                /\ UNCHANGED <<tab_text, tab_process_map, procs, buttonVars>>
           ELSE IF r.status # "ok"
           THEN /\ call' = done(r.status)
                /\ UNCHANGED <<tab_text, tab_process_map, procs, buttonVars>>
           ELSE IF run_in_background
           THEN /\ call' = done("detached")
                /\ UNCHANGED <<tab_text, tab_process_map, procs, buttonVars>>
           ELSE \E p \in ProcIds, st \in {"Starting", "Running"} :
                /\ procs[p].state = "Unused"
                /\ \A q \in ProcIds : procs[q].state = "Unused" => p <= q
                /\ tab_process_map' = With(tab_process_map, w, p)
                /\ procs' = Collect([procs EXCEPT ![p] =
                                 [state |-> st, tab |-> w, terminate |-> FALSE]],
                                 tab_process_map')
                /\ tab_text' = [tab_text EXCEPT ![w] =
                                 ScriptTitle(UiGet(get_ui_values(editors), "Command",
                                                   S_script_file_name))]
                /\ run_enabled' =
                       update_button_states(tabs, current, tab_process_map', procs')[1]
                /\ stop_enabled' =
                       update_button_states(tabs, current, tab_process_map', procs')[2]
                /\ call' = [done("attached") EXCEPT !.state = st]
    /\ UNCHANGED <<windowVars, tabs, current, tab_counter>>

\* MainWindow.run_script, on a click of the Run button. QProcess.start() leaves
\* the new process Starting, or already Running, as the platform has it.
RunScript ==
    /\ ~closed
    /\ run_enabled
    /\ current # 0
    /\ LET w == tabs[current]
           r == get_script_and_args(config, editors)
           done(status) == [op |-> "run_script", status |-> status, args |-> r.args,
                            marks |-> r.marks, arg_number |-> r.arg_number,
                            state |-> "", logged |-> RunLog(status)]
       IN  IF w \in DOMAIN tab_process_map /\ IsRunning(tab_process_map[w])
           THEN /\ call' = [NoCall EXCEPT !.op = "run_script", !.status = "busy"]
                /\ UNCHANGED <<tab_text, tab_process_map, procs, buttonVars>>
           ELSE IF r.status # "ok"
           THEN /\ call' = done(r.status)
                /\ UNCHANGED <<tab_text, tab_process_map, procs, buttonVars>>
           ELSE IF run_in_background /\ pythonw_exists
           THEN /\ call' = done("detached")
                /\ UNCHANGED <<tab_text, tab_process_map, procs, buttonVars>>
           ELSE \E p \in ProcIds, st \in {"Starting", "Running"} :
                /\ procs[p].state = "Unused"
                /\ \A q \in ProcIds : procs[q].state = "Unused" => p <= q
                /\ tab_process_map' = With(tab_process_map, w, p)
                /\ procs' = Collect([procs EXCEPT ![p] =
                                 [state |-> st, tab |-> w, terminate |-> FALSE]],
                                 tab_process_map')
                /\ tab_text' = [tab_text EXCEPT ![w] =
                                 ScriptTitle(UiGet(get_ui_values(editors), "Command",
                                                   S_script_file_name))]
                /\ run_enabled' =
                       update_button_states(tabs, current, tab_process_map', procs')[1]
                /\ stop_enabled' =
                       update_button_states(tabs, current, tab_process_map', procs')[2]
                /\ call' = [done("attached") EXCEPT !.state = st]
    /\ UNCHANGED <<windowVars, tabs, current, tab_counter>>

\* QProcess: a Starting process has started (started() has no slot connected)
ProcessStarted(p) ==
    /\ ~closed
    /\ procs[p].state = "Starting"
    /\ procs' = [procs EXCEPT ![p].state = "Running"]
    /\ call' = NoCall
    /\ UNCHANGED <<windowVars, tabVars, tab_process_map, buttonVars>>

\* QProcess: a Starting process failed to start (errorOccurred() has no slot
\* connected, and finished() is not emitted)
ProcessFailedToStart(p) ==
    /\ ~closed
    /\ procs[p].state = "Starting"
    /\ procs' = Collect([procs EXCEPT ![p].state = "NotRunning"], tab_process_map)
    /\ call' = NoCall
    /\ UNCHANGED <<windowVars, tabVars, tab_process_map, buttonVars>>

\* a lookup that takes the widget of the active tab
widget_of_current_tab(p) == IF current = 0 THEN 0 ELSE tabs[current]

\* MainWindow._find_widget_for_process: the widget, or 0
find_widget_for_process(p) ==
    LET ws == {w \in DOMAIN tab_process_map : tab_process_map[w] = p}
    IN  IF ws = {} THEN 0 ELSE CHOOSE w \in ws : TRUE

\* MainWindow.tab_process_finished, lines 707-722: the lines appended to the
\* widget's output
FinishLog(exit_status, exit_code) ==
    <<L_finished_at,
      IF exit_status = "CrashExit" THEN L_crashed ELSE L_exit_code(exit_code),
      L_blank>>

\* a slot that returns when the widget is in no tab any more
ProcessFinishedInOpenTab(p) ==
    /\ ~closed
    /\ procs[p].state = "Running"
    /\ \E exit_status \in ExitStatuses, exit_code \in ExitCodes :
        LET widget == find_widget_for_process(p)
            ended == [procs EXCEPT ![p].state = "NotRunning"]
        IN  IF widget = 0 \/ ~\E i \in DOMAIN tabs : tabs[i] = widget
            THEN /\ procs' = ended
                 /\ call' = NoCall
                 /\ UNCHANGED <<tab_text, tab_process_map, buttonVars>>
            ELSE /\ tab_text' = [tab_text EXCEPT ![widget].finished = TRUE]
                 /\ tab_process_map' = Without(tab_process_map, widget)
                 /\ procs' = Collect(ended, tab_process_map')
                 /\ run_enabled' =
                        update_button_states(tabs, current, tab_process_map', procs')[1]
                 /\ stop_enabled' =
                        update_button_states(tabs, current, tab_process_map', procs')[2]
                 /\ call' = [op |-> "tab_process_finished", process |-> p,
                             widget |-> widget, origin |-> procs[p].tab,
                             exit_status |-> exit_status,
                             exit_code |-> exit_code,
                             logged |-> FinishLog(exit_status, exit_code)]
    /\ UNCHANGED <<windowVars, tabs, current, tab_counter>>

\* QProcess: a Running process ends with some exit status and exit code and
\* emits finished(), whose slot is MainWindow.tab_process_finished
ProcessFinished(p) ==
    /\ ~closed
    /\ procs[p].state = "Running"
    /\ \E exit_status \in ExitStatuses, exit_code \in ExitCodes :
        LET widget == find_widget_for_process(p)
            ended == [procs EXCEPT ![p].state = "NotRunning"]
        IN  IF widget = 0
            THEN /\ procs' = Collect(ended, tab_process_map)
                 /\ call' = NoCall
                 /\ UNCHANGED <<tab_text, tab_process_map, buttonVars>>
            ELSE /\ tab_text' =
                        IF \E i \in DOMAIN tabs : tabs[i] = widget
                        THEN [tab_text EXCEPT ![widget].finished = TRUE]
                        ELSE tab_text
                 /\ tab_process_map' = Without(tab_process_map, widget)
                 /\ procs' = Collect(ended, tab_process_map')
                 /\ run_enabled' =
                        update_button_states(tabs, current, tab_process_map', procs')[1]
                 /\ stop_enabled' =
                        update_button_states(tabs, current, tab_process_map', procs')[2]
                 /\ call' = [op |-> "tab_process_finished", process |-> p,
                             widget |-> widget, origin |-> procs[p].tab,
                             exit_status |-> exit_status,
                             exit_code |-> exit_code,
                             logged |-> FinishLog(exit_status, exit_code)]
    /\ UNCHANGED <<windowVars, tabs, current, tab_counter>>

\* what a script writes in one go, as lines
ScriptLines == {<<"x">>}

\* MainWindow.handle_tab_output, the slot of readyReadStandardOutput of process
\* p: the lines are appended to the widget found for p, or dropped
HandleTabOutput(p, lines) ==
    /\ ~closed
    /\ procs[p].state = "Running"
    /\ LET widget == find_widget_for_process(p)
       IN  call' = IF widget = 0 THEN NoCall
                   ELSE [op |-> "handle_tab_output", process |-> p,
                         widget |-> widget, origin |-> procs[p].tab,
                         logged |-> [i \in DOMAIN lines |-> <<"> ", lines[i]>>]]
    /\ UNCHANGED <<windowVars, tabVars, tab_process_map, procs, buttonVars>>

\* MainWindow.handle_tab_error, the slot of readyReadStandardError of process p
HandleTabError(p, lines) ==
    /\ ~closed
    /\ procs[p].state = "Running"
    /\ LET widget == find_widget_for_process(p)
       IN  call' = IF widget = 0 THEN NoCall
                   ELSE [op |-> "handle_tab_error", process |-> p,
                         widget |-> widget, origin |-> procs[p].tab,
                         logged |-> [i \in DOMAIN lines |-> <<"! ERROR: ", lines[i]>>]]
    /\ UNCHANGED <<windowVars, tabVars, tab_process_map, procs, buttonVars>>

\* a Stop that terminates every running process
StopEveryScript ==
    /\ ~closed
    /\ stop_enabled
    /\ current # 0
    /\ procs' = [p \in ProcIds |->
                    IF IsRunning(p) THEN [procs[p] EXCEPT !.terminate = TRUE]
                    ELSE procs[p]]
    /\ call' = NoCall
    /\ UNCHANGED <<windowVars, tabVars, tab_process_map, buttonVars>>

\* MainWindow.stop_script, on a click of the Stop button
StopScript ==
    /\ ~closed
    /\ stop_enabled
    /\ current # 0
    /\ LET w == tabs[current]
       IN  IF w \in DOMAIN tab_process_map /\ IsRunning(tab_process_map[w])
           THEN procs' = [procs EXCEPT ![tab_process_map[w]].terminate = TRUE]
           ELSE UNCHANGED procs
    /\ call' = NoCall
    /\ UNCHANGED <<windowVars, tabVars, tab_process_map, buttonVars>>

\* MainWindow.create_new_tab, on a click of the New Output Tab button (the button
\* exists only in multi-tab mode)
CreateNewTab ==
    /\ ~closed
    /\ multi_tab_enabled
    /\ tab_counter < MaxTabs
    /\ tab_counter' = tab_counter + 1
    /\ tabs' = Append(tabs, tab_counter')
    /\ current' = Len(tabs')
    /\ tab_text' = [w \in DOMAIN tab_text \cup {tab_counter'} |->
                       IF w = tab_counter' THEN OutputTitle(tab_counter')
                       ELSE tab_text[w]]
    /\ run_enabled' = update_button_states(tabs', current', tab_process_map, procs)[1]
    /\ stop_enabled' = update_button_states(tabs', current', tab_process_map, procs)[2]
    /\ call' = NoCall
    /\ UNCHANGED <<windowVars, tab_process_map, procs>>

\* QTabWidget.removeTab(index): the tabs left, and the current index (a removed
\* current tab hands over to its right neighbour, or to the last tab)
RemoveTab(index) ==
    [tabs |-> SubSeq(tabs, 1, index - 1) \o SubSeq(tabs, index + 1, Len(tabs)),
     current |-> IF index < current THEN current - 1
                 ELSE IF index = current /\ index = Len(tabs) THEN index - 1
                 ELSE current]

\* MainWindow.close_tab on tabCloseRequested(index); reply is the answer to
\* "A script is still running in this tab. Do you want to terminate it?".
\* removeTab emits currentChanged, whose slot is update_button_states, when the
\* current index or the current widget changes.
CloseTab(index, reply) ==
    /\ ~closed
    /\ multi_tab_enabled
    /\ Len(tabs) > 1
    /\ index \in DOMAIN tabs
    /\ LET w == tabs[index]
           running == w \in DOMAIN tab_process_map /\ IsRunning(tab_process_map[w])
           after == RemoveTab(index)
           removed ==
               /\ tabs' = after.tabs
               /\ current' = after.current
               /\ IF index <= current
                  THEN /\ run_enabled' = update_button_states(
                              after.tabs, after.current, tab_process_map', procs')[1]
                       /\ stop_enabled' = update_button_states(
                              after.tabs, after.current, tab_process_map', procs')[2]
                  ELSE UNCHANGED buttonVars
       IN  IF running
           THEN IF reply = "Yes"
                THEN /\ procs' = [procs EXCEPT ![tab_process_map[w]].terminate = TRUE]
                     /\ UNCHANGED tab_process_map
                     /\ removed
                ELSE UNCHANGED <<tabs, current, tab_process_map, procs, buttonVars>>
           ELSE /\ reply = "Yes"
                /\ tab_process_map' = IF w \in DOMAIN tab_process_map
                                      THEN Without(tab_process_map, w)
                                      ELSE tab_process_map
                /\ procs' = Collect(procs, tab_process_map')
                /\ removed
    /\ tab_text' = [x \in {tabs'[i] : i \in DOMAIN tabs'} |-> tab_text[x]]
    /\ call' = NoCall
    /\ UNCHANGED <<windowVars, tab_counter>>

\* the user selects another tab: currentChanged, whose slot is
\* update_button_states
SwitchTab(index) ==
    /\ ~closed
    /\ index \in DOMAIN tabs
    /\ index # current
    /\ current' = index
    /\ run_enabled' = update_button_states(tabs, index, tab_process_map, procs)[1]
    /\ stop_enabled' = update_button_states(tabs, index, tab_process_map, procs)[2]
    /\ call' = NoCall
    /\ UNCHANGED <<windowVars, tabs, tab_counter, tab_text,
                   tab_process_map, procs>>

\* MainWindow.save_config, on Save INI or Ctrl+S (the menu action is always
\* enabled)
SaveConfig ==
    /\ ~closed
    /\ BecomesForm(save_config(TheForm))
    /\ call' = [NoCall EXCEPT !.op = "save_config", !.handler = "save_config"]
    /\ UNCHANGED <<closeVars, settingVars, tabVars, tab_process_map, procs, buttonVars>>

\* what a handler that prompts and then loads leaves behind: the load's result
\* for the file as it is on disk after the prompt, or the form after the prompt
\* when nothing is loaded
PromptThenLoad(handler, reply, file) ==
    LET asked == prompt_to_save_if_dirty(TheForm, reply)
        done == [NoCall EXCEPT !.handler = handler, !.prompt = asked.prompt]
    IN  IF asked.proceed /\ file # None
        THEN LET found == asked.form.ini_files[file]
             IN  /\ BecomesForm(load_and_build_ui(asked.form, file, found.outcome,
                                                   found.cfg))
                 /\ call' = [done EXCEPT !.op = "load_and_build_ui",
                                         !.status = found.outcome]
        ELSE /\ BecomesForm(asked.form)
             /\ call' = IF asked.saved THEN [done EXCEPT !.op = "save_config"]
                        ELSE done

\* MainWindow._reload_current_file, on Reload INI or F5 (enabled once a file was
\* loaded)
ReloadCurrentFile(reply) ==
    /\ ~closed
    /\ config_file # None
    /\ PromptThenLoad("_reload_current_file", reply, config_file)
    /\ UNCHANGED <<closeVars, settingVars, tabVars, tab_process_map, procs, buttonVars>>

\* MainWindow._prompt_open_file, on Open INI File; file is the file chosen in the
\* dialog, which lists the files there are, None when the dialog is cancelled
PromptOpenFile(reply, file) ==
    /\ ~closed
    /\ file # None => ini_files[file].outcome # "missing"
    /\ PromptThenLoad("_prompt_open_file", reply, file)
    /\ UNCHANGED <<closeVars, settingVars, tabVars, tab_process_map, procs, buttonVars>>

\* another program rewrites, garbles or removes an INI file, as the editor does
\* that _open_ini_in_editor starts
FileChanged(file, outcome, cfg) ==
    /\ ini_files[file] # FileOf(outcome, cfg)
    /\ ini_files' = [ini_files EXCEPT ![file] = FileOf(outcome, cfg)]
    /\ call' = NoCall
    /\ UNCHANGED <<formVars, dirtyVars, closeVars, settingVars, tabVars,
                   tab_process_map, procs, buttonVars>>

\* the user resizes the window
Resize(size) ==
    /\ ~closed
    /\ window_size # size
    /\ window_size' = size
    /\ call' = NoCall
    /\ UNCHANGED <<formVars, dirtyVars, ini_files, remember_window_size, app_settings,
                   closed, settingVars, tabVars, tab_process_map, procs, buttonVars>>

\* a closeEvent that stores the window size before it asks
CloseEventSizeFirst(reply, answer) ==
    /\ ~closed
    /\ LET asked == prompt_to_save_if_dirty(TheForm, reply)
           running_processes ==
               {p \in ProcIds : IsRunning(p) /\ \E w \in DOMAIN tab_process_map :
                                                   tab_process_map[w] = p}
           accepted == asked.proceed /\ (running_processes = {} \/ answer = "Yes")
       IN  /\ BecomesForm(asked.form)
           /\ app_settings' = IF remember_window_size
                              THEN [app_settings EXCEPT !.window_size = window_size]
                              ELSE app_settings
           /\ closed' = accepted
           /\ call' = [op |-> "closeEvent", handler |-> "closeEvent",
                       prompt |-> asked.prompt,
                       question |-> asked.proceed /\ running_processes # {},
                       answer |-> IF asked.proceed /\ running_processes # {}
                                  THEN answer ELSE "",
                       accepted |-> accepted,
                       size_written |-> remember_window_size]
           /\ UNCHANGED <<remember_window_size, window_size, settingVars, tabVars,
                          tab_process_map, procs, buttonVars>>

\* MainWindow.closeEvent, on the window's close button or self.close(): reply
\* is the button of "You have unsaved changes...", answer the one of "Closing
\* this window will terminate them. Are you sure?". The handler calls neither
\* terminate() nor kill().
CloseEvent(reply, answer) ==
    /\ ~closed
    /\ LET asked == prompt_to_save_if_dirty(TheForm, reply)
           running_processes ==
               {p \in ProcIds : IsRunning(p) /\ \E w \in DOMAIN tab_process_map :
                                                   tab_process_map[w] = p}
           confirmed == running_processes = {} \/ answer = "Yes"
           accepted == asked.proceed /\ confirmed
       IN  /\ BecomesForm(asked.form)
           /\ app_settings' = IF accepted /\ remember_window_size
                              THEN [app_settings EXCEPT !.window_size = window_size]
                              ELSE app_settings
           /\ closed' = accepted
           /\ call' = [op |-> "closeEvent", handler |-> "closeEvent",
                       prompt |-> asked.prompt,
                       question |-> asked.proceed /\ running_processes # {},
                       answer |-> IF asked.proceed /\ running_processes # {}
                                  THEN answer ELSE "",
                       accepted |-> accepted,
                       size_written |-> accepted /\ remember_window_size]
           /\ UNCHANGED <<remember_window_size, window_size, settingVars, tabVars,
                          tab_process_map, procs, buttonVars>>

----------------------------------------------------------------------------
(* INI files                                                               *)

\* the sequences of at most n different elements of pool
DistinctSeqs(pool, n) ==
    {s \in UNION {[1..m -> pool] : m \in 0..n} :
        \A i, j \in DOMAIN s : i # j => s[i] # s[j]}

\* the sections of at most n options with keys of keyPool and values of valuePool
SectionsOf(keyPool, valuePool, n) ==
    UNION {{[i \in DOMAIN ks |-> [key |-> ks[i], value |-> vs[i]]] :
               vs \in [DOMAIN ks -> valuePool]} : ks \in DistinctSeqs(keyPool, n)}

ScriptOption(name) == <<[key |-> S_script_file_name, value |-> name]>>

K_arg1 == S_arg \o <<"1">>
K_arg2 == S_arg \o <<"2">>
K_arg10 == S_arg \o <<"1", "0">>
K_argx == S_arg \o <<"x">>

\* script names the user can type: one that exists, or none
ScriptTexts == {<<"s">>, <<>>}

\* texts the user can type into an argument editor
ArgTexts == {<<>>, <<"a">>}

\* most options of an [Arguments] or [ArgParse] section
MaxArgs == 3

\* the INI of the process life cycle runs: a script and one argument
LifecycleIni ==
    Ini(ScriptOption(<<"s">>), <<[key |-> K_arg1, value |-> <<"a">>]>>, <<>>, <<>>,
        {"Command", "Arguments"})

\* INIs of the positional scheme: [Arguments] keys in any order, numbered from 1
\* or later and with holes, one key that is no arg<N>; a value "true" makes a
\* check box
PositionalKeys == {K_arg1, K_arg2, K_arg10, K_argx}
PositionalValues == {<<>>, <<"a">>, S_true}

PositionalInis ==
    {Ini(ScriptOption(<<"s">>), a, <<>>, <<>>, {"Command", "Arguments"}) :
        a \in SectionsOf(PositionalKeys, PositionalValues, MaxArgs)}

\* INIs of the flag scheme: [ArgParse] entries in any order, with boolean, typed,
\* list-typed, filename and untyped definitions and one without a flag; the
\* [Arguments] section, when there is one, gives the editors their first values
K_v == <<"v">>
D_boolean == <<"-", "-", "v", " ">> \o Paren(S_boolean)
D_integer == <<"-", "n", " ">> \o Paren(S_integer)
D_list == <<"-", "-", "l", " ">> \o Paren(S_list \o <<"i", "n", "t", "]">>)
D_filename == <<"-", "f", " ">> \o Paren(S_filename)
D_untyped == <<"-", "-", "o">>
D_noflag == Paren(S_float)

FlagKeys == {K_arg1, K_arg2, K_v}
FlagDefinitions == {D_boolean, D_integer, D_list, D_filename, D_untyped, D_noflag}
FlagDefaults == <<[key |-> K_arg1, value |-> <<"a">>], [key |-> K_arg2, value |-> <<>>],
                  [key |-> K_v, value |-> S_true]>>

FlagInis ==
    {Ini(ScriptOption(<<"s">>), FlagDefaults, d, <<>>,
         {"Command", "Arguments", "ArgParse"}) :
        d \in SectionsOf(FlagKeys, FlagDefinitions, MaxArgs)}
    \cup {Ini(ScriptOption(<<"s">>), <<>>, <<[key |-> K_v, value |-> D_boolean]>>, <<>>,
              {"Command", "ArgParse"})}

----------------------------------------------------------------------------
(* Specifications                                                          *)

\* the window in multi-tab or single-tab mode, attached or background runs
Init ==
    \E multi \in BOOLEAN, background \in BOOLEAN, pythonw \in BOOLEAN :
        InitWindow(LifecycleIni, multi, background, pythonw)

Next ==
    \/ \E i \in DOMAIN editors, t \in ScriptTexts :
          editors[i].section = "Command" /\ EditText(i, t)
    \/ RunScript
    \/ \E p \in ProcIds : ProcessStarted(p)
    \/ \E p \in ProcIds : ProcessFailedToStart(p)
    \/ \E p \in ProcIds : ProcessFinished(p)
    \/ StopScript
    \/ CreateNewTab
    \/ \E i \in DOMAIN tabs, reply \in {"Yes", "No"} : CloseTab(i, reply)
    \/ \E i \in DOMAIN tabs : SwitchTab(i)

Spec == Init /\ [][Next]_vars

\* the multi-tab window with attached runs of one script that exists
InitTabs == InitWindow(LifecycleIni, TRUE, FALSE, FALSE)

NextTabs ==
    \/ RunScript
    \/ \E p \in ProcIds : ProcessStarted(p)
    \/ \E p \in ProcIds : ProcessFailedToStart(p)
    \/ \E p \in ProcIds : ProcessFinished(p)
    \/ StopScript
    \/ CreateNewTab
    \/ \E i \in DOMAIN tabs, reply \in {"Yes", "No"} : CloseTab(i, reply)
    \/ \E i \in DOMAIN tabs : SwitchTab(i)

SpecTabs == InitTabs /\ [][NextTabs]_vars

\* the same window, left to run, start, finish and close tabs, when every
\* running script ends at some time: the event loop then delivers finished() to
\* tab_process_finished
NextLive ==
    \/ RunScript
    \/ \E p \in ProcIds : ProcessStarted(p)
    \/ \E p \in ProcIds : ProcessFinished(p)
    \/ CreateNewTab
    \/ \E i \in DOMAIN tabs, reply \in {"Yes", "No"} : CloseTab(i, reply)
    \/ \E i \in DOMAIN tabs : SwitchTab(i)

\* the same window with the output of the running scripts arriving
NextOutput ==
    \/ NextLive
    \/ \E p \in ProcIds, lines \in ScriptLines : HandleTabOutput(p, lines)
    \/ \E p \in ProcIds, lines \in ScriptLines : HandleTabError(p, lines)

SpecOutput == InitTabs /\ [][NextOutput]_vars

SpecLive ==
    InitTabs /\ [][NextLive]_vars /\ \A p \in ProcIds : WF_vars(ProcessFinished(p))

\* the earlier versions gui4ini_v0.1 and gui4ini_v0.3: the argument list of
\* run_script for the values of a form

\* ord(c) of a digit, "_" or a lower-case letter
Ord(c) ==
    IF IsDigit(c) THEN 48 + DigitVal(c)
    ELSE IF c = "_" THEN 95
    ELSE 96 + (CHOOSE i \in DOMAIN LowerChars : LowerChars[i] = c)

\* a <= b for two str, as sorted() without a key compares them
RECURSIVE StrLeq(_, _)
StrLeq(a, b) ==
    IF a = <<>> THEN TRUE
    ELSE IF b = <<>> THEN FALSE
    ELSE IF a[1] # b[1] THEN Ord(a[1]) < Ord(b[1])
    ELSE StrLeq(Tail(a), Tail(b))

RECURSIVE InsertByText(_, _)
InsertByText(x, sorted) ==
    IF sorted = <<>> THEN <<x>>
    ELSE IF StrLeq(sorted[Len(sorted)], x) THEN Append(sorted, x)
    ELSE Append(InsertByText(x, SubSeq(sorted, 1, Len(sorted) - 1)),
                sorted[Len(sorted)])

\* sorted(keys)
RECURSIVE sorted_by_text(_)
sorted_by_text(keys) ==
    IF keys = <<>> THEN <<>>
    ELSE InsertByText(keys[Len(keys)],
                      sorted_by_text(SubSeq(keys, 1, Len(keys) - 1)))

\* the text read from the editor built for an INI value: a QCheckBox for
\* "true"/"false" in any case, read as str(isChecked()).lower(), else a QLineEdit
legacy_ui_value(value) ==
    IF Lower(value) \in {S_true, S_false} THEN Lower(value) ELSE value

\* the values of the form of an INI with a script option named script_key in
\* [Command], in dict order
legacy_ui_values(cfg, script_key) ==
    [i \in DOMAIN cfg.Command |->
        [section |-> "Command", key |-> script_key,
         value |-> legacy_ui_value(cfg.Command[i].value)]]
    \o [i \in DOMAIN cfg.Arguments |->
           [section |-> "Arguments", key |-> cfg.Arguments[i].key,
            value |-> legacy_ui_value(cfg.Arguments[i].value)]]

\* the keys passed and their values, once the script was found
LegacyRun(ui, script, keys) ==
    IF script = <<>> THEN [status |-> "no_script_name", keys |-> <<>>, args |-> <<>>]
    ELSE IF script \notin ExistingScripts
    THEN [status |-> "script_not_found", keys |-> <<>>, args |-> <<>>]
    ELSE [status |-> "started", keys |-> keys,
          args |-> [i \in DOMAIN keys |->
                       ui[CHOOSE j \in DOMAIN ui : ui[j].key = keys[i]].value]]

\* gui4ini_v0.1 run_script: config_values is keyed by the option name alone
run_script_v0_1(ui) ==
    LET names == [i \in DOMAIN ui |-> ui[i].key]
        found == {i \in DOMAIN ui : ui[i].key = S_filename}
        script == IF found = {} THEN <<>> ELSE ui[CHOOSE i \in found : TRUE].value
    IN  LegacyRun(ui, script,
                  SelectSeq(sorted_by_text(names), LAMBDA k : StartsWith(k, S_arg)))

\* gui4ini_v0.3 run_script: the keys of [Arguments] are sorted, then those that
\* start with "arg" are passed
run_script_v0_3(ui) ==
    LET arguments == SelectSeq(ui, LAMBDA e : e.section = "Arguments")
        names == [i \in DOMAIN arguments |-> arguments[i].key]
        found == {i \in DOMAIN ui : /\ ui[i].section = "Command"
                                    /\ ui[i].key = S_script_file_name}
        script == IF found = {} THEN <<>> ELSE ui[CHOOSE i \in found : TRUE].value
    IN  LegacyRun(ui, script,
                  SelectSeq(sorted_by_text(names), LAMBDA k : StartsWith(k, S_arg)))

\* a click on Run in gui4ini_v0.1
RunScriptV01 ==
    /\ call' = [op |-> "run_script", version |-> "v0.1"]
                @@ run_script_v0_1(legacy_ui_values(config, S_filename))
    /\ UNCHANGED <<windowVars, tabVars, tab_process_map, procs, buttonVars>>

\* a click on Run in gui4ini_v0.3
RunScriptV03 ==
    /\ call' = [op |-> "run_script", version |-> "v0.3"]
                @@ run_script_v0_3(legacy_ui_values(config, S_script_file_name))
    /\ UNCHANGED <<windowVars, tabVars, tab_process_map, procs, buttonVars>>

\* the forms of the positional INIs, as loaded
InitLegacy ==
    \E cfg \in PositionalInis : InitWindow(cfg, FALSE, FALSE, FALSE)

NextLegacy == RunScriptV01 \/ RunScriptV03

SpecLegacy == InitLegacy /\ [][NextLegacy]_vars

\* background execution: the multi-tab window with run_in_background set, with
\* and without pythonw.exe next to the interpreter
InitBackground ==
    \E pythonw \in BOOLEAN : InitWindow(LifecycleIni, TRUE, TRUE, pythonw)

SpecBackground == InitBackground /\ [][NextTabs]_vars

\* closing the window: a multi-tab window with attached runs, a form that can be
\* edited, a window that can be resized, and either setting of
\* remember_window_size
InitClose ==
    \E remember \in BOOLEAN :
        /\ config = LifecycleIni
        /\ editors = BuildEditors(LifecycleIni)
        /\ is_dirty = FALSE
        /\ save_enabled = FALSE
        /\ window_title = FileTitle(F_a)
        /\ config_file = F_a
        /\ ini_files = [f \in IniNames |-> FileOf("ok", LifecycleIni)]
        /\ InitSettings(remember, DefaultSize)
        /\ multi_tab_enabled = TRUE
        /\ run_in_background = FALSE
        /\ pythonw_exists = FALSE
        /\ tabs = <<1>>
        /\ current = 1
        /\ tab_counter = 1
        /\ tab_text = [w \in {1} |-> OutputTitle(1)]
        /\ tab_process_map = << >>
        /\ procs = [p \in ProcIds |-> NoProc]
        /\ run_enabled = TRUE
        /\ stop_enabled = FALSE
        /\ call = NoCall

NextClose ==
    \/ \E i \in DOMAIN editors :
          editors[i].section = "Arguments" /\ EditText(i, <<>>)
    \/ RunScript
    \/ \E p \in ProcIds : ProcessStarted(p)
    \/ \E p \in ProcIds : ProcessFinished(p)
    \/ CreateNewTab
    \/ \E size \in WindowSizes : Resize(size)
    \/ \E reply \in Replies, answer \in {"Yes", "No"} : CloseEvent(reply, answer)

SpecClose == InitClose /\ [][NextClose]_vars

\* the positional scheme: a single-tab window on an INI without [ArgParse],
\* launching in the background (a detached run leaves no QProcess behind, so the
\* form is explored on its own)
InitPositional ==
    \E cfg \in PositionalInis : InitWindow(cfg, FALSE, TRUE, TRUE)

NextPositional ==
    \/ \E i \in DOMAIN editors, t \in ArgTexts :
          editors[i].section = "Arguments" /\ EditText(i, t)
    \/ \E i \in DOMAIN editors : ToggleCheck(i)
    \/ RunScript

SpecPositional == InitPositional /\ [][NextPositional]_vars

\* the flag scheme: a single-tab window on an INI with an [ArgParse] section
InitFlags ==
    \E cfg \in FlagInis : InitWindow(cfg, FALSE, TRUE, TRUE)

SpecFlags == InitFlags /\ [][NextPositional]_vars

\* type inference on its own: _create_editor_for_value and guess_type applied
\* to a key, a value and a type hint
MaxValueLen == 3

InferChars == {"1", "-", ".", "e", "_", " ", "a"}

InferValues ==
    UNION {[1..n -> InferChars] : n \in 0..MaxValueLen}
    \cup {S_true, S_false, <<"T", "r", "u", "e">>, <<"F", "A", "L", "S", "E">>,
          <<"4", "2">>, <<"3", ".", "1", "4">>, <<"a", "b", "c">>,
          <<"i", "n", "f">>, <<"n", "a", "n">>, <<"1", "e", "-", "1", "1">>}

\* the hints _parse_label and _parse_argparse_definition can hand over
RecognizedHints ==
    {S_integer, S_float, S_boolean, S_filename, S_list \o <<"i", "n", "t", "]">>,
     S_list \o <<"f", "i", "l", "e", "]">>}

InferKeys == {K_arg1, K_v, S_script_file_name}

\* the call is pending until CreateEditor makes it
CreateEditor ==
    /\ call.op = "input"
    /\ call' = [op |-> "create_editor_for_value", key |-> call.key,
                value |-> call.value, type_hint |-> call.type_hint,
                editor |-> create_editor_for_value(call.key, call.value,
                                                   call.type_hint),
                guessed |-> guess_type(call.value)]
    /\ UNCHANGED <<windowVars, tabVars, tab_process_map, procs, buttonVars>>

InitInfer ==
    \E key \in InferKeys, value \in InferValues,
       type_hint \in RecognizedHints \cup {None} :
        /\ config = EmptyIni
        /\ editors = <<>>
        /\ is_dirty = FALSE
        /\ save_enabled = FALSE
        /\ window_title = AppTitle
        /\ config_file = None
        /\ ini_files = [f \in IniNames |-> FileOf("missing", EmptyIni)]
        /\ InitSettings(TRUE, DefaultSize)
        /\ multi_tab_enabled = FALSE
        /\ run_in_background = FALSE
        /\ pythonw_exists = FALSE
        /\ tabs = <<1>>
        /\ current = 1
        /\ tab_counter = 1
        /\ tab_text = [w \in {1} |-> OutputTitle(1)]
        /\ tab_process_map = << >>
        /\ procs = [p \in ProcIds |-> NoProc]
        /\ run_enabled = TRUE
        /\ stop_enabled = FALSE
        /\ call = [op |-> "input", key |-> key, value |-> value,
                   type_hint |-> type_hint]

NextInfer == CreateEditor

SpecInfer == InitInfer /\ [][NextInfer]_vars

\* runs that must be refused: INIs without a [Command] section, with a [Command]
\* section that has no script_file_name, with an empty script name and with the
\* name of a file that does not exist, next to one that can run; attached runs
\* in a single tab
OneArgument == <<[key |-> K_arg1, value |-> <<"a">>]>>

RefuseInis ==
    {LifecycleIni,
     Ini(<<>>, OneArgument, <<>>, <<>>, {"Arguments"}),
     Ini(<<[key |-> K_v, value |-> <<"s">>]>>, OneArgument, <<>>, <<>>,
         {"Command", "Arguments"}),
     Ini(ScriptOption(<<>>), OneArgument, <<>>, <<>>, {"Command", "Arguments"}),
     Ini(ScriptOption(<<"t">>), OneArgument, <<>>, <<>>, {"Command", "Arguments"})}

RefuseTexts == {<<"s">>, <<>>, <<"t">>}

InitRefuse ==
    \E cfg \in RefuseInis, background \in BOOLEAN :
        InitWindow(cfg, FALSE, background, FALSE)

NextRefuse ==
    \/ \E i \in DOMAIN editors, t \in RefuseTexts :
          editors[i].section = "Command" /\ EditText(i, t)
    \/ RunScript
    \/ \E p \in ProcIds : ProcessStarted(p)
    \/ \E p \in ProcIds : ProcessFailedToStart(p)
    \/ \E p \in ProcIds : ProcessFinished(p)
    \/ StopScript

SpecRefuse == InitRefuse /\ [][NextRefuse]_vars

\* the form on its own: loads that succeed or fail, reloads, edits and saves.
\* The INIs: two text fields; a check box built checked; an [ArgParse] form with
\* [Labels], an [Arguments] option without editor and an editor without
\* [Arguments] option
CheckedIni ==
    Ini(ScriptOption(<<"s">>), <<[key |-> K_arg1, value |-> S_true]>>, <<>>, <<>>,
        {"Command", "Arguments"})

LabelledIni ==
    Ini(ScriptOption(<<"s">>),
        <<[key |-> K_arg1, value |-> <<"a">>], [key |-> K_arg2, value |-> <<"a">>]>>,
        <<[key |-> K_arg1, value |-> D_integer], [key |-> K_v, value |-> D_boolean]>>,
        <<[key |-> S_script_file_name, value |-> <<"x", " ">> \o Paren(S_filename)]>>,
        {"Command", "Arguments", "ArgParse", "Labels"})

FormInis == {LifecycleIni, CheckedIni, LabelledIni}

\* MainWindow.__init__: the initial load into the window as lines 235-281 leave
\* it, then the first tab
InitForm ==
    \E outcome \in Outcomes, cfg \in FormInis :
        LET blank == [config |-> EmptyIni, editors |-> <<>>, is_dirty |-> FALSE,
                      save_enabled |-> FALSE, window_title |-> AppTitle,
                      config_file |-> None,
                      ini_files |-> [f \in IniNames |->
                                        IF f = F_a THEN FileOf(outcome, cfg)
                                        ELSE FileOf("ok", CheckedIni)]]
            st == load_and_build_ui(blank, F_a, outcome, cfg)
        IN  /\ config = st.config
            /\ editors = st.editors
            /\ is_dirty = st.is_dirty
            /\ save_enabled = st.save_enabled
            /\ window_title = st.window_title
            /\ config_file = st.config_file
            /\ ini_files = st.ini_files
            /\ InitSettings(TRUE, DefaultSize)
            /\ multi_tab_enabled = FALSE
            /\ run_in_background = FALSE
            /\ pythonw_exists = FALSE
            /\ tabs = <<1>>
            /\ current = 1
            /\ tab_counter = 1
            /\ tab_text = [w \in {1} |-> OutputTitle(1)]
            /\ tab_process_map = << >>
            /\ procs = [p \in ProcIds |-> NoProc]
            /\ run_enabled = TRUE
            /\ stop_enabled = FALSE
            /\ call = NoCall

NextForm ==
    \/ \E i \in DOMAIN editors, t \in ArgTexts :
          editors[i].key = K_arg1 /\ EditText(i, t)
    \/ \E i \in DOMAIN editors : ToggleCheck(i)
    \/ SaveConfig
    \/ \E reply \in Replies : ReloadCurrentFile(reply)
    \/ \E reply \in Replies, file \in {None} \cup IniNames : PromptOpenFile(reply, file)
    \/ \E outcome \in Outcomes :
          config_file # None /\ FileChanged(config_file, outcome, LifecycleIni)
    \/ \E reply \in Replies : CloseEvent(reply, "Yes")

SpecForm == InitForm /\ [][NextForm]_vars

\* type hints as the form builders obtain them: a [Labels] text goes through
\* _parse_label, an [ArgParse] definition through _parse_argparse_definition,
\* and the hint found is handed to _create_editor_for_value
T_list_int == S_list \o <<"i", "n", "t", "]">>
T_LIST_File == <<"L", "I", "S", "T", "[", "F", "i", "l", "e", "]">>

HintTexts ==
    {K_v, D_boolean, D_integer, D_list, D_filename, D_untyped, D_noflag,
     <<"x", " ">> \o Paren(T_list_int), <<"x", " ">> \o Paren(T_LIST_File),
     <<"x", " ">> \o Paren(S_integer), <<"x", " ">> \o Paren(S_boolean) \o <<" ">>,
     <<"x", " ">> \o T_list_int, Paren(S_list \o <<"]">>)}

HintValues ==
    {<<>>, <<"a">>, S_true, <<"4", "2">>, T_list_int, Paren(T_list_int),
     <<"[", "1", "]">>}

CreateEditorFromText ==
    /\ call.op = "text"
    /\ LET type_hint == IF call.via = "Labels"
                        THEN parse_label(call.text).type_hint
                        ELSE parse_argparse_definition(call.text).type_hint
       IN  call' = [op |-> "create_editor_from_text", via |-> call.via,
                    text |-> call.text, key |-> call.key, value |-> call.value,
                    type_hint |-> type_hint,
                    editor |-> create_editor_for_value(call.key, call.value, type_hint),
                    inferred |-> InferType(call.value)]
    /\ UNCHANGED <<windowVars, tabVars, tab_process_map, procs, buttonVars>>

InitHints ==
    \E key \in InferKeys, value \in HintValues, text \in HintTexts,
       via \in {"Labels", "ArgParse"} :
        /\ config = EmptyIni
        /\ editors = <<>>
        /\ is_dirty = FALSE
        /\ save_enabled = FALSE
        /\ window_title = AppTitle
        /\ config_file = None
        /\ ini_files = [f \in IniNames |-> FileOf("missing", EmptyIni)]
        /\ InitSettings(TRUE, DefaultSize)
        /\ multi_tab_enabled = FALSE
        /\ run_in_background = FALSE
        /\ pythonw_exists = FALSE
        /\ tabs = <<1>>
        /\ current = 1
        /\ tab_counter = 1
        /\ tab_text = [w \in {1} |-> OutputTitle(1)]
        /\ tab_process_map = << >>
        /\ procs = [p \in ProcIds |-> NoProc]
        /\ run_enabled = TRUE
        /\ stop_enabled = FALSE
        /\ call = [op |-> "text", via |-> via, text |-> text, key |-> key,
                   value |-> value]

NextHints == CreateEditorFromText

SpecHints == InitHints /\ [][NextHints]_vars

----------------------------------------------------------------------------
(* Properties                                                              *)

\* run_script got as far as assembling the argument vector
Assembled == call.op = "run_script" /\ call.status \in {"attached", "detached", "gap"}

\* run_script launched the script
Launched == call.op = "run_script" /\ call.status \in {"attached", "detached"}

Positional == ~has_section(config, "ArgParse")

\* a key of the form arg<N>, N a non-negative integer in decimal digits
IsArgN(k) == Len(k) > 3 /\ SubSeq(k, 1, 3) = S_arg /\ \A i \in 4..Len(k) : IsDigit(k[i])

RECURSIVE Decimal(_)
Decimal(d) ==
    IF d = <<>> THEN 0
    ELSE 10 * Decimal(SubSeq(d, 1, Len(d) - 1)) + DigitVal(d[Len(d)])

\* the N of arg<N>
NumberOf(k) == Decimal(SubSeq(k, 4, Len(k)))

\* the arg<N> keys of the form's argument section
ArgNKeys ==
    {editors[i].key : i \in {j \in DOMAIN editors :
        editors[j].section = "Arguments" /\ IsArgN(editors[j].key)}}

\* what the editor of an [Arguments] key holds now
ValueOf(key) ==
    LET e == editors[CHOOSE i \in DOMAIN editors :
                        editors[i].section = "Arguments" /\ editors[i].key = key]
    IN  IF e.widget = "QCheckBox" THEN (IF e.checked THEN S_true ELSE S_false)
        ELSE e.text

\* the arg<N> keys in ascending order of N
KeysByNumber ==
    CHOOSE ks \in [1..Cardinality(ArgNKeys) -> ArgNKeys] :
        /\ \A k \in ArgNKeys : \E i \in DOMAIN ks : ks[i] = k
        /\ \A i, j \in DOMAIN ks : i < j => NumberOf(ks[i]) < NumberOf(ks[j])

\* the editor values of the arg<N> keys in ascending order of N
ValuesByNumber == [i \in DOMAIN KeysByNumber |-> ValueOf(KeysByNumber[i])]

\* some argument before the last non-empty one is empty
HasGap(args) == \E i, j \in DOMAIN args : i < j /\ args[i] = <<>> /\ args[j] # <<>>

\* C1: without an [ArgParse] section the assembled vector is the current editor
\* values of exactly the [Arguments] keys arg<N>, in ascending numeric order of N
C1_PositionalOrder == (Assembled /\ Positional) => call.args = ValuesByNumber

\* the spec's example: the keys arg2, arg1, arg10 in this order in the INI, all
\* filled, and the script launched
C1_Witness ==
    /\ Launched /\ Positional
    /\ [i \in 1..(Len(editors) - 1) |-> editors[i + 1].key] = <<K_arg2, K_arg1, K_arg10>>
    /\ \A i \in DOMAIN call.args : call.args[i] # <<>>
    /\ call.args[1] # call.args[2]

\* C2: in the positional scheme a run that reached the assembly is rejected for a
\* gap exactly when some argument before the last non-empty one, in numeric
\* order, is empty; so no launched vector has an empty entry before its last
\* non-empty entry
C2_GapRejection ==
    /\ (Assembled /\ Positional) => (call.status = "gap" <=> HasGap(ValuesByNumber))
    /\ Launched => ~HasGap(call.args)

\* a run rejected for a hole in the middle: filled, empty, filled
C2_Witness ==
    /\ call.op = "run_script" /\ call.status = "gap" /\ Positional
    /\ Len(call.args) = 3
    /\ call.args[1] # <<>> /\ call.args[2] = <<>> /\ call.args[3] # <<>>

\* the decimal text of a natural number
RECURSIVE DecimalText(_)
DecimalText(n) ==
    IF n < 10 THEN <<DigitChars[n + 1]>>
    ELSE Append(DecimalText(n \div 10), DigitChars[(n % 10) + 1])

\* the lowest-numbered empty argument that precedes a non-empty one
FirstOffendingKey ==
    LET vs == ValuesByNumber
        bad == {i \in DOMAIN vs : vs[i] = <<>> /\ \E j \in DOMAIN vs : i < j /\ vs[j] # <<>>}
    IN  KeysByNumber[CHOOSE i \in bad : \A j \in bad : i <= j]

\* C3: the argument named by the gap warning is the key of the lowest-numbered
\* empty argument that precedes a non-empty one
C3_GapCitesFirstOffender ==
    (call.op = "run_script" /\ call.status = "gap" /\ Positional)
        => S_arg \o DecimalText(call.arg_number) = FirstOffendingKey

\* a process is attached to the widget: the table holds a process for it that
\* has been started and has not finished
Attached(w) ==
    /\ w \in DOMAIN tab_process_map
    /\ procs[tab_process_map[w]].state \in {"Starting", "Running"}

\* C4: run_script starts nothing and leaves tab_process_map alone whenever a
\* process is attached to the active tab, whatever the state of that process
C4_RunRefusedWhenAttached ==
    [][(call'.op = "run_script" /\ current # 0 /\ Attached(tabs[current]))
          => (tab_process_map' = tab_process_map /\ procs' = procs)]_vars

\* the processes started in a tab that have not finished
LiveIn(w) == {p \in ProcIds : procs[p].tab = w /\ procs[p].state \in {"Starting", "Running"}}

\* C5: every open output tab has at most one started and unfinished process
C5_OneProcessPerTab ==
    \A i \in DOMAIN tabs : Cardinality(LiveIn(tabs[i])) <= 1

\* the [ArgParse] entries, and for entry i its flag, its editor and what the
\* entry put into the vector
Entries == items(config, "ArgParse")
FlagOf(i) == parse_argparse_definition(Entries[i].value).flag
HasEditor(i) ==
    \E j \in DOMAIN editors :
        editors[j].section = "Arguments" /\ editors[j].key = Entries[i].key
EditorOf(i) ==
    editors[CHOOSE j \in DOMAIN editors :
               editors[j].section = "Arguments" /\ editors[j].key = Entries[i].key]
PartOf(i) == SubSeq(call.args, call.marks[i] + 1, call.marks[i + 1])

FlagScheme == Assembled /\ has_section(config, "ArgParse")

\* C6: an [ArgParse] entry whose editor is boolean-typed puts its flag alone into
\* the vector when the check box is checked, and nothing when it is not
C6_BooleanFlag ==
    FlagScheme =>
        \A i \in DOMAIN Entries :
            (HasEditor(i) /\ FlagOf(i) # None /\ EditorOf(i).type = S_boolean)
                => PartOf(i) = IF EditorOf(i).checked THEN <<FlagOf(i)>> ELSE <<>>

\* a launched run with a checked and an unchecked boolean entry
C6_Witness ==
    /\ FlagScheme /\ Launched
    /\ \E i, j \in DOMAIN Entries :
          /\ HasEditor(i) /\ FlagOf(i) # None /\ EditorOf(i).type = S_boolean
          /\ HasEditor(j) /\ FlagOf(j) # None /\ EditorOf(j).type = S_boolean
          /\ EditorOf(i).checked /\ ~EditorOf(j).checked
          /\ PartOf(i) = <<FlagOf(i)>> /\ PartOf(j) = <<>>

\* C7: an [ArgParse] entry whose editor is not boolean-typed puts its flag and
\* right after it the editor's text into the vector when the text is not empty,
\* and nothing when it is
C7_TextFlag ==
    FlagScheme =>
        \A i \in DOMAIN Entries :
            (HasEditor(i) /\ FlagOf(i) # None /\ EditorOf(i).type # S_boolean)
                => PartOf(i) = IF EditorOf(i).text # <<>>
                               THEN <<FlagOf(i), EditorOf(i).text>> ELSE <<>>

\* a launched run with a filled and an empty text entry
C7_Witness ==
    /\ FlagScheme /\ Launched
    /\ \E i, j \in DOMAIN Entries :
          /\ HasEditor(i) /\ FlagOf(i) # None /\ EditorOf(i).type # S_boolean
          /\ HasEditor(j) /\ FlagOf(j) # None /\ EditorOf(j).type # S_boolean
          /\ EditorOf(i).text # <<>> /\ EditorOf(j).text = <<>>
          /\ PartOf(i) = <<FlagOf(i), EditorOf(i).text>> /\ PartOf(j) = <<>>

\* what the flag scheme emits for the entries from i on, in section order
RECURSIVE FlagVector(_)
FlagVector(i) ==
    IF i > Len(Entries) THEN <<>>
    ELSE (IF ~HasEditor(i) \/ FlagOf(i) = None THEN <<>>
          ELSE IF EditorOf(i).widget = "QCheckBox"
          THEN (IF EditorOf(i).checked THEN <<FlagOf(i)>> ELSE <<>>)
          ELSE IF EditorOf(i).text # <<>> THEN <<FlagOf(i), EditorOf(i).text>>
          ELSE <<>>) \o FlagVector(i + 1)

\* C8: with an [ArgParse] section the vector is made of that section's entries
\* alone, in section order, each value right behind its flag; no positional
\* value is added and no run is rejected for a gap
C8_FlagOrder ==
    (call.op = "run_script" /\ has_section(config, "ArgParse"))
        => /\ call.status # "gap"
           /\ Assembled => call.args = FlagVector(1)

\* a launched run of arg1 (empty) and arg2 (filled), a gap in the positional
\* scheme, and two entries emitted in section order
C8_Witness ==
    /\ FlagScheme /\ Launched
    /\ \E i, j \in DOMAIN Entries :
          /\ Entries[i].key = K_arg1 /\ Entries[j].key = K_arg2
          /\ HasEditor(i) /\ HasEditor(j)
          /\ EditorOf(i).widget # "QCheckBox" /\ EditorOf(i).text = <<>>
          /\ EditorOf(j).widget # "QCheckBox" /\ EditorOf(j).text # <<>>
    /\ Len(call.args) >= 3
    /\ \E i, j \in DOMAIN Entries : i < j /\ PartOf(i) # <<>> /\ PartOf(j) # <<>>

CreatedEditor == call.op = "create_editor_for_value"

\* C9 as stated: with a recognized hint the type chosen is the hint, for any key
C9_HintWinsForAnyKey ==
    (CreatedEditor /\ call.type_hint \in RecognizedHints)
        => call.editor.type = call.type_hint

\* C9, amended: with a recognized hint the type chosen is the hint, whatever the
\* value, for every key but script_file_name
C9_HintWins ==
    (CreatedEditor /\ call.type_hint \in RecognizedHints
        /\ call.key # S_script_file_name)
        => call.editor.type = call.type_hint

\* the hint integer wins over a value that is no integer
C9_Witness ==
    /\ CreatedEditor /\ call.key = K_arg1
    /\ call.type_hint = S_integer /\ call.value = <<"a", "b", "c">>
    /\ call.editor.type = S_integer

\* C10: without a hint the type is boolean for "true" and "false" in any case,
\* else integer when int() takes the value, else float when float() takes it,
\* else string; and guess_type gives the same type
C10_Inference ==
    (CreatedEditor /\ call.type_hint = None /\ call.key # S_script_file_name)
        => LET v == call.value
               t == call.editor.type
               bool == Lower(v) \in {S_true, S_false}
           IN  /\ t = call.guessed
               /\ t = S_boolean <=> bool
               /\ t = S_integer <=> ~bool /\ IntParses(v)
               /\ t = S_float <=> ~bool /\ ~IntParses(v) /\ FloatParses(v)
               /\ t = S_string <=> ~bool /\ ~IntParses(v) /\ ~FloatParses(v)
               /\ v = S_true => t = S_boolean
               /\ v = <<"4", "2">> => t = S_integer
               /\ v = <<"3", ".", "1", "4">> => t = S_float
               /\ v = <<"a", "b", "c">> => t = S_string
               /\ v = <<>> => t = S_string

\* "True" without a hint is a boolean for the form and for guess_type
C10_Witness ==
    /\ CreatedEditor /\ call.type_hint = None /\ call.key = K_arg1
    /\ call.value = <<"T", "r", "u", "e">>
    /\ call.editor.type = S_boolean /\ call.guessed = S_boolean

IsListType(t) == StartsWith(t, S_list)

\* list[T] with T a non-empty run of word characters
IsListHint(h) ==
    /\ IsListType(h)
    /\ Len(h) > Len(S_list) + 1
    /\ h[Len(h)] = "]"
    /\ \A i \in (Len(S_list) + 1)..(Len(h) - 1) : IsWordChar(h[i])

\* C11: the type of an editor is a list type only when the hint handed over is
\* list[T], and then it is that hint; the type guessed from a value is never a
\* list type, and the hint of a label is never one
C11_ListOnlyByHint ==
    call.op = "create_editor_from_text" =>
        /\ IsListType(call.editor.type)
              => IsListHint(call.type_hint) /\ call.editor.type = call.type_hint
        /\ ~IsListType(call.inferred)
        /\ call.via = "Labels" => ~IsListType(call.type_hint)
        /\ call.type_hint = None => ~IsListType(call.editor.type)

\* an ArgParse definition "(LIST[File])" types the editor list[file] although
\* the value is "42"
C11_Witness ==
    /\ call.op = "create_editor_from_text" /\ call.via = "ArgParse"
    /\ call.text = <<"x", " ">> \o Paren(T_LIST_File)
    /\ call.key = K_arg1 /\ call.value = <<"4", "2">>
    /\ call.editor.type = S_list \o <<"f", "i", "l", "e", "]">>

\* a label "x (list[int])" and a value "list[int]" give no list type
C11_WitnessLabel ==
    /\ call.op = "create_editor_from_text" /\ call.via = "Labels"
    /\ call.text = <<"x", " ">> \o Paren(T_list_int)
    /\ call.key = K_arg1 /\ call.value = T_list_int
    /\ call.type_hint = None /\ call.editor.type = S_string

\* the process tab_process_map holds for the current tab, or 0
ActiveProcess ==
    IF current # 0 /\ tabs[current] \in DOMAIN tab_process_map
    THEN tab_process_map[tabs[current]] ELSE 0

\* C12: stop_script asks the running process of the current tab to terminate
\* and touches nothing else: every other process and the whole tab_process_map
\* stay as they are, and without a running process in the current tab nothing
\* changes
C12_IndependentStop ==
    [][StopScript =>
          /\ tab_process_map' = tab_process_map
          /\ \A p \in ProcIds : p # ActiveProcess => procs'[p] = procs[p]
          /\ IF ActiveProcess # 0 /\ IsRunning(ActiveProcess)
             THEN procs' = [procs EXCEPT ![ActiveProcess].terminate = TRUE]
             ELSE procs' = procs
          /\ UNCHANGED <<tabVars, formVars>>]_vars

\* two tabs with a running process each; the one of the current tab was asked
\* to terminate, the other was not
C12_Witness ==
    /\ current # 0 /\ ActiveProcess # 0
    /\ IsRunning(ActiveProcess) /\ procs[ActiveProcess].terminate
    /\ \E i \in DOMAIN tabs :
          /\ i # current /\ tabs[i] \in DOMAIN tab_process_map
          /\ IsRunning(tab_process_map[tabs[i]])
          /\ ~procs[tab_process_map[tabs[i]]].terminate

\* the current tab has a running process
RunningInCurrent == ActiveProcess # 0 /\ IsRunning(ActiveProcess)

\* C18: with a tab open, Run is enabled exactly when the current tab has no
\* running process and Stop exactly when it has one
C18_ButtonsFollowTab ==
    current # 0 => /\ run_enabled <=> ~RunningInCurrent
                   /\ stop_enabled <=> RunningInCurrent

\* Stop is never enabled on a tab without a running process
StopEnabledIdle == ~(stop_enabled /\ ~RunningInCurrent)

\* the form has no Command/script_file_name editor, or its text is empty or
\* names no existing file
HasScriptEditor ==
    \E i \in DOMAIN editors :
        editors[i].section = "Command" /\ editors[i].key = S_script_file_name
ScriptText ==
    editors[CHOOSE i \in DOMAIN editors :
               editors[i].section = "Command" /\ editors[i].key = S_script_file_name].text
NoScriptToRun == ~HasScriptEditor \/ ScriptText = <<>> \/ ScriptText \notin {<<"s">>}

C13_WitnessNoEditor ==
    call.op = "run_script" /\ call.status = "no_script_name" /\ ~HasScriptEditor

FinishedProcess == call.op = "tab_process_finished"

\* a line of the log carries the exit code
ReportsExitCode ==
    \E i \in DOMAIN call.logged :
        \E j \in DOMAIN call.logged[i] : <<call.logged[i][j]>> = Str(call.exit_code)

\* C14: when an attached process finishes, the log says "terminated or crashed"
\* exactly when the exit status is CrashExit, and in both cases a line of the log
\* carries the exit code
C14_ExitReported ==
    FinishedProcess =>
        /\ (\E i \in DOMAIN call.logged : call.logged[i] = L_crashed)
              <=> call.exit_status = "CrashExit"
        /\ ReportsExitCode

\* the crash and the clean exit are told apart, and the clean exit reports its
\* exit code
C14_CleanExitReported ==
    FinishedProcess =>
        /\ (\E i \in DOMAIN call.logged : call.logged[i] = L_crashed)
              <=> call.exit_status = "CrashExit"
        /\ call.exit_status = "NormalExit" => ReportsExitCode

Loaded(outcomes) == call.op = "load_and_build_ui" /\ call.status \in outcomes

\* C15: after _load_and_build_ui was called with a missing or an unparsable
\* file the form has no editor
C15_FailedLoadEmptiesForm ==
    Loaded({"missing", "unparsable"}) => editors = <<>>

\* after _load_and_build_ui was called with an unparsable file the form has no
\* editor
C15_UnparsableEmptiesForm ==
    Loaded({"unparsable"}) => editors = <<>>

HasEditorFor(section, key) ==
    \E i \in DOMAIN editors : editors[i].section = section /\ editors[i].key = key

SectionNames == {"Command", "Arguments", "ArgParse", "Labels"}

\* C16: save_config keeps every section, every key and the order of the keys;
\* an option without editor keeps its value, an option added has an editor, and
\* [Labels] and [ArgParse] are the same before and after
C16_SavePreservesOthers ==
    [][SaveConfig =>
          /\ config.sections \subseteq config'.sections
          /\ \A name \in config'.sections \ config.sections :
                \E i \in DOMAIN editors : editors[i].section = name
          /\ config'.Labels = config.Labels
          /\ config'.ArgParse = config.ArgParse
          /\ \A name \in SectionNames :
                /\ Len(config'[name]) >= Len(config[name])
                /\ \A i \in DOMAIN config'[name] :
                      IF i \in DOMAIN config[name]
                      THEN /\ config'[name][i].key = config[name][i].key
                           /\ HasEditorFor(name, config[name][i].key)
                                 \/ config'[name][i] = config[name][i]
                      ELSE HasEditorFor(name, config'[name][i].key)]_vars

OptionValue(name, key) ==
    config[name][CHOOSE i \in DOMAIN config[name] : config[name][i].key = key].value

\* the [ArgParse] form saved after arg1 was emptied: arg1 is written, v is added,
\* arg2, [Labels] and [ArgParse] are as loaded
C16_Witness ==
    /\ call.op = "save_config"
    /\ config.ArgParse = LabelledIni.ArgParse /\ config.Labels = LabelledIni.Labels
    /\ Len(config.Arguments) = 3
    /\ OptionValue("Arguments", K_arg1) = <<>>
    /\ OptionValue("Arguments", K_arg2) = <<"a">>
    /\ OptionValue("Arguments", K_v) \in {S_true, S_false}

TitleStarred == EndsWith(window_title, <<"*">>)

\* C19: the Save button is enabled exactly when is_dirty holds, and the window
\* title ends with "*" exactly when is_dirty holds
C19_DirtyMarker ==
    /\ save_enabled <=> is_dirty
    /\ TitleStarred <=> is_dirty

\* the Save button is enabled exactly when is_dirty holds
C19_SaveButtonOnly == save_enabled <=> is_dirty

\* C20: after a load that built the form and after a save is_dirty is false; an
\* edit of an editor by the user makes it true
C20_CleanAfterLoad ==
    /\ [](Loaded({"ok"}) \/ call.op = "save_config" => ~is_dirty)
    /\ [][(call'.op = "none" /\ editors' # editors) => is_dirty']_vars

\* a form with a check box that was built checked is clean after its load
C20_Witness ==
    /\ Loaded({"ok"}) /\ ~is_dirty /\ ~save_enabled /\ ~TitleStarred
    /\ \E i \in DOMAIN editors : editors[i].widget = "QCheckBox" /\ editors[i].checked

Mapped(p) == \E w \in DOMAIN tab_process_map : tab_process_map[w] = p

IsOpen(w) == \E i \in DOMAIN tabs : tabs[i] = w

\* C17: a running process that tab_process_map holds is out of the map as soon
\* as it has finished, whether its tab is open or was closed meanwhile; its tab,
\* when open, then has no entry, and Run is enabled when it is the current tab;
\* and every such process gets there: none stays running and mapped for ever
C17_CleanupOnFinish ==
    /\ [][\A p \in ProcIds :
            (IsRunning(p) /\ Mapped(p) /\ procs'[p].state # "Running")
                => LET w == find_widget_for_process(p)
                   IN  /\ \A x \in DOMAIN tab_process_map' : tab_process_map'[x] # p
                       /\ w \notin DOMAIN tab_process_map'
                       /\ (current' # 0 /\ tabs'[current'] = w) => run_enabled']_vars
    /\ \A p \in ProcIds : []<>~(IsRunning(p) /\ Mapped(p))

\* a process has finished whose tab was closed while it ran; its entry is gone
C17_Witness ==
    /\ call.op = "tab_process_finished"
    /\ ~IsOpen(call.widget)
    /\ call.widget \notin DOMAIN tab_process_map
    /\ procs[call.process].state # "Running"

\* the handlers that call _prompt_to_save_if_dirty, as the step that ends in
\* call' has run one
PromptingHandlers == {"_reload_current_file", "_prompt_open_file", "closeEvent"}

Prompting ==
    /\ call'.op \in {"none", "save_config", "load_and_build_ui", "closeEvent"}
    /\ call'.handler \in PromptingHandlers

\* what save_config writes for the form as it is
SavedFile == FileOf("ok", SetAll(config, get_ui_values(editors)))

\* the operation went on behind the prompt: a reload loads, a close with no
\* running process is accepted (the file dialog of an open may still be
\* cancelled)
WentOn ==
    /\ call'.handler = "_reload_current_file" => call'.op = "load_and_build_ui"
    /\ call'.handler = "closeEvent" => call'.question \/ closed'

\* C21: opening, reloading and closing ask "You have unsaved changes..." exactly
\* when is_dirty is true. Cancel loads nothing, leaves the window open and leaves
\* config, editors, is_dirty and the INI files as they are; Discard goes on and
\* writes no file; Save writes the form to the loaded file and goes on, so that
\* a reload reads what was saved; a clean form goes on and writes no file
C21_PromptWhenDirty ==
    [][Prompting =>
        /\ is_dirty <=> call'.prompt \in Replies
        /\ ~is_dirty => call'.prompt = "" /\ WentOn /\ ini_files' = ini_files
        /\ call'.prompt = "Cancel" =>
               /\ call'.op \notin {"load_and_build_ui", "save_config"}
               /\ ~closed'
               /\ UNCHANGED <<config, editors, is_dirty, ini_files, config_file>>
        /\ call'.prompt = "Discard" => WentOn /\ ini_files' = ini_files
        /\ call'.prompt = "Save" =>
               /\ WentOn
               /\ ini_files' = [ini_files EXCEPT ![config_file] = SavedFile]
               /\ call'.handler = "_reload_current_file" =>
                      call'.status = "ok" /\ config' = SavedFile.cfg]_vars

\* a reload of an edited form, answered with Save: the emptied arg1 is in the
\* file and in the form loaded from it
C21_Witness ==
    /\ call.handler = "_reload_current_file" /\ call.prompt = "Save"
    /\ call.op = "load_and_build_ui" /\ call.status = "ok"
    /\ ini_files[config_file] = FileOf("ok", config)
    /\ OptionValue("Arguments", K_arg1) = <<>>
    /\ ~is_dirty

\* a close that was cancelled at the prompt: the window is open, the form dirty
C21_WitnessCancel ==
    /\ call.op = "closeEvent" /\ call.prompt = "Cancel"
    /\ ~closed /\ is_dirty

\* an open answered with Discard that loaded the other file
C21_WitnessDiscard ==
    /\ call.handler = "_prompt_open_file" /\ call.prompt = "Discard"
    /\ call.op = "load_and_build_ui" /\ config_file = F_b

\* the processes closeEvent counts: those of tab_process_map that are Running
RunningProcesses == {p \in ProcIds : IsRunning(p) /\ Mapped(p)}

\* C22: closeEvent accepts the close exactly when the unsaved-changes prompt
\* was not cancelled and, with a process of tab_process_map running, the user
\* answered Yes; a refused close leaves the settings as they are, and the
\* window size gets into the settings only by an accepted close with
\* remember_window_size set, which stores the size the window has
C22_CloseAccepted ==
    [][/\ call'.op = "closeEvent" =>
            /\ closed' <=> /\ call'.prompt # "Cancel"
                           /\ RunningProcesses # {} =>
                                  call'.question /\ call'.answer = "Yes"
            /\ ~closed' => app_settings' = app_settings /\ ~call'.size_written
            /\ call'.size_written <=> closed' /\ remember_window_size
            /\ call'.size_written => app_settings'.window_size = window_size
       /\ app_settings' # app_settings =>
            call'.op = "closeEvent" /\ closed' /\ remember_window_size]_vars

\* an accepted close, confirmed while a script ran, that stored a size other
\* than the one the window was opened with
C22_Witness ==
    /\ call.op = "closeEvent" /\ closed /\ call.question /\ call.size_written
    /\ RunningProcesses # {}
    /\ app_settings.window_size = window_size
    /\ window_size # DefaultSize

\* a close refused at "Closing this window will terminate them" after the
\* changes were saved at the prompt
C22_WitnessRefused ==
    /\ call.op = "closeEvent" /\ ~closed /\ call.prompt = "Save"
    /\ call.question /\ call.answer = "No"
    /\ remember_window_size /\ app_settings.window_size # window_size

C24_BackgroundRun ==
    /\ [][(call'.op = "run_script" /\ call'.status \in {"attached", "detached"}) =>
            IF run_in_background /\ pythonw_exists
            THEN /\ call'.status = "detached"
                 /\ UNCHANGED <<tab_process_map, tab_text, procs, buttonVars>>
            ELSE /\ call'.status = "attached"
                 /\ tabs[current] \in DOMAIN tab_process_map'
                 /\ procs'[tab_process_map'[tabs[current]]].state
                        \in {"Starting", "Running"}
                 /\ run_in_background =>
                        \E i \in DOMAIN call'.logged : call'.logged[i] = L_no_pythonw]_vars
    /\ [](run_in_background /\ pythonw_exists =>
            /\ tab_process_map = << >>
            /\ run_enabled /\ ~stop_enabled
            /\ call.op = "run_script" => call.status # "busy")

\* a background run in the second tab: nothing is recorded, the titles are those
\* of new tabs and Run is enabled
C24_Witness ==
    /\ call.op = "run_script" /\ call.status = "detached"
    /\ run_in_background /\ pythonw_exists
    /\ Len(tabs) = 2 /\ current = 2
    /\ tab_process_map = << >> /\ run_enabled
    /\ \A w \in DOMAIN tab_text : tab_text[w] = OutputTitle(w)

\* without pythonw.exe the run is attached and recorded
C24_WitnessAttached ==
    /\ call.op = "run_script" /\ call.status = "attached"
    /\ run_in_background /\ ~pythonw_exists
    /\ tabs[current] \in DOMAIN tab_process_map

LegacyRan == call.op = "run_script" /\ call.status = "started"

\* C25: gui4ini_v0.1 and gui4ini_v0.3 pass the values of the arg<N> keys in
\* ascending order of N
C25_LegacyNumericOrder ==
    LegacyRan =>
        \A i, j \in DOMAIN call.keys :
            (i < j /\ IsArgN(call.keys[i]) /\ IsArgN(call.keys[j]))
                => NumberOf(call.keys[i]) <= NumberOf(call.keys[j])

\* what both versions do: the keys that start with "arg" are passed in the
\* order of their text, each with the value of its editor
C25_LegacyTextOrder ==
    LegacyRan =>
        /\ \A i, j \in DOMAIN call.keys :
               i < j => StrLeq(call.keys[i], call.keys[j])
        /\ {call.keys[i] : i \in DOMAIN call.keys}
               = {config.Arguments[i].key : i \in DOMAIN config.Arguments}
        /\ \A i \in DOMAIN call.keys :
               call.args[i] = legacy_ui_value(OptionValue("Arguments", call.keys[i]))

\* arg10 was passed before arg2
C25_LegacyWitness ==
    /\ LegacyRan
    /\ \E i, j \in DOMAIN call.keys :
          i < j /\ call.keys[i] = K_arg10 /\ call.keys[j] = K_arg2

\* a slot has appended text of a process to a widget
Routed == call.op \in {"handle_tab_output", "handle_tab_error", "tab_process_finished"}

\* C26: the output, the error output and the finish report of a process are
\* appended to the widget of the tab the process was started in, whichever tab
\* is active, and to no other
C26_OutputRouting == Routed => call.widget = call.origin

\* output of a script started in the first tab arrives while the second tab is
\* active, and goes to the first
C26_Witness ==
    /\ call.op = "handle_tab_output"
    /\ call.widget = 1 /\ current = 2 /\ tabs[current] = 2
    /\ 2 \in DOMAIN tab_process_map /\ IsRunning(tab_process_map[2])

\* the finish report of a script started in the first tab, with the second
\* active
C26_WitnessFinished ==
    /\ call.op = "tab_process_finished"
    /\ call.widget = 1 /\ current = 2 /\ tabs[current] = 2

====
